---------------------------- MODULE Spec2Model ----------------------------
(***************************************************************************)
(* A model of nefi: the per-node export client, the identity cache, the    *)
(* cluster-side metrics aggregator and the dependency computer.            *)
(*                                                                         *)
(* Each subsystem has its own variables, its own initial predicate and its *)
(* own next-state relation; a subsystem's actions leave the variables of   *)
(* the others unchanged.                                                   *)
(***************************************************************************)
EXTENDS Integers, Sequences, FiniteSets, TLC

VARIABLES
    \* ---- export client (internal/agent/exporter/grpc.go) ----
    queue,        \* Exporter.queue: the buffered events, oldest first
    conn,         \* Exporter.conn: "nil" or "open"
    stream,       \* Exporter.stream: "nil" or "open"
    fpc,          \* where the flush call stands: "idle" or "taken"
    batch,        \* flush's local batch while fpc = "taken"
    flushErr,     \* what the last completed flush returned: "none", "nil", "err"
    sendResult,   \* how stream.Send ended in the current or last flush: "none", "ok", "fail"
    nextId,       \* the number the next enqueued event gets (events are 1, 2, ...)
    takes,        \* history: how often flush took a batch out of the queue
    dropped,      \* history: events Enqueue dropped for overflow, in drop order
    truncated,    \* history: events the put-back after a failed Send cut off
    handed,       \* history: events handed to stream.Send (in a batch)
    discarded,    \* history: events flush let go of without handing them to Send
    \* ---- Exporter.Start, the reconnect loop (internal/agent/exporter/grpc.go) ----
    spc,          \* where Start stands: "top", "dialing", "sleeping", "loop", "tick", "final", "broke", "stopped", "returned"
    backoff,      \* Start's local backoff, in milliseconds
    ctxDone,      \* whether the context given to Start is cancelled
    waited,       \* history: the last wait before a redial in ms, 0 when no dial failed since the start or the last dial that succeeded
    lastStep,     \* history: the last of "start", "dialOk", "dialFail", "slept", "break", "stop", "return"
    finalFlush,   \* history: how often flushLoop called flush in its ctx.Done branch
    lateFlushes,  \* history: how many flush calls flushLoop began after the context was cancelled
    startErr,     \* what Start returned: "none" while it runs, "ctx" for ctx.Err()
    \* ---- one service's latency histogram (internal/server/metrics/aggregator.go) ----
    hsm,          \* a serviceMetrics: latencyCounts and latencySum
    hSamples,     \* history: how often each sample value was observed since the last flush
    hOut,         \* the latency values <<P50, P95, P99>> the last flush computed, or <<>>
    \* ---- one edge of the dependency computer (internal/server/graph) ----
    feed,         \* which synthetic event stream the compute cycle reads
    edgeSeen,     \* how many events of the stream the cycle has handled
    accLatencies, \* linkAccumulator.latencies of the edge
    linkP99,      \* DependencyLink.P99LatencyNs of the edge's link, -1 before buildLinks
    \* ---- metrics aggregator (internal/server/metrics/aggregator.go) ----
    services,     \* Aggregator.services: service name -> serviceMetrics
    amu,          \* Aggregator.mu: "free", or the goroutine that holds it
    opc,          \* per ingestion stream: "idle", or "locked" inside an Observe call
    oev,          \* per ingestion stream: the event of its Observe call
    oid,          \* per ingestion stream: the number of its observation
    obsNext,      \* history: the number the next Observe call that locks gets
    unboundCalls, \* history: how many Observe calls returned for want of a service
    apc,          \* where the flush call stands: "idle", "locked", "swapped"
    snapshot,     \* flush's local snapshot
    flushed,      \* history: the snapshot of every flush, in order
    aggOut,       \* the points the last flush handed to the metric writer
    feedPos,      \* how many events of the fixed feed have been handed to Observe
    observed,     \* history: the event of every Observe call that locked, by its number
    \* ---- Aggregator.Start, flushLoop and Stop (internal/server/metrics/aggregator.go) ----
    lpc,          \* where flushLoop stands: "off" before Start, "select", "tick", "final", "ended"
    stopCh,       \* Aggregator.stopCh: "open" or "closed"
    doneCh,       \* Aggregator.doneCh: "open" or "closed"
    stpc,         \* where the caller of Stop stands: "idle", "waiting", "returned"
    beforeStop,   \* history: the observations that had completed when Stop was called
    written,      \* history: the observations of the snapshots whose points were given to the metric writer
    \* ---- Kubernetes metadata cache (internal/agent/k8s/cache.go) ----
    heap,         \* the model.Endpoint objects allocated so far; a pointer is an index
    endpoints,    \* Cache.endpoints: IP -> pointer to Endpoint
    podToServices,\* Cache.podToServices: pod key -> service name
    ppc,          \* pod informer goroutine: "idle", or "built" between onPodAdd's read and its write
    pEp,          \* onPodAdd's local ep (with the pod object it was built for)
    held,         \* the pointers Lookup has returned to callers, in order
    cacheEvents,  \* history: how many informer events have been delivered
    done,         \* history: the handlers that have completed
    lastOp,       \* history: who took the last step
    \* ---- ingestion server (package ingestion) and storage ----
    ipc,          \* per ingestion stream: "recv" in StreamEvents' loop, "closed" after the ack, "failed" after a Recv error
    totalAccepted,\* per ingestion stream: StreamEvents' totalAccepted
    ack,          \* per ingestion stream: StreamResponse.Accepted, -1 before SendAndClose
    sAccepted,    \* IngestionServer.accepted
    batchesIn,    \* history: every batch received, with its stream and what the writer answered
    storeConns,   \* storage: the connection events written, oldest first, each with its stream
    storeReqs,    \* storage: the HTTP request events written, oldest first, each with its stream
    \* ---- dependency computer (package graph), the whole map ----
    dpc,          \* where compute stands: "idle", "reset", "read"
    deps,         \* DependencyComputer.deps: key -> linkAccumulator
    depIn,        \* history: what the event reader gave the running cycle
    depLinks,     \* the links of the last WriteDependencies that succeeded
    cycles,       \* history: how many compute cycles have ended
    \* ---- the node name on the way from the agent to the server (part_003, grpc.go, part_005) ----
    nodeName,     \* the agent's NODE_NAME
    rawSeen,      \* history: how many events processEvents has read from the loader
    nodeQueue,    \* the exporter's queue, each event with its kind and node
    wire,         \* the batches sent to the ingestion server and not yet received, oldest first
    decoded,      \* the events the ingestion server decoded, each with its item's and its batch's node
    \* ---- the agent's main and its health server (package main, part_003) ----
    mpc,          \* where main stands: "health" (health server started), "launched" (subsystem goroutines started), "ready" (after setReady)
    ready,        \* healthState.ready
    sub,          \* per subsystem (loader, cache, exporter): "off", "starting", "up", "failed"
    lastProbe,    \* history: the last HTTP probe, its status code and whether all subsystems were up when it was answered
    \* ---- probe loader (internal/agent/ebpf/loader.go) ----
    lpcs,         \* where Loader.Start stands: "init", "running", "closing" (in Close), "returned"
    setup,        \* history: what Start found: whether the path could be read, and the objects
    collections,  \* len(Loader.collections)
    links,        \* len(Loader.links)
    perf,         \* Loader.connPerf and httpPerf: "nil", "open", "closed"
    lctx,         \* whether the context given to Start is cancelled
    rpc,          \* per decode loop: "off", "check", "read", "holding", "done", "panicked"
    evch,         \* Loader.events: whether it is closed and how many events it buffers
    reads,        \* history: how many records the readers have returned
    releaseLog,   \* history: what Close has released, in order
    startResult,  \* what Start returned: "none", "fatal", "ctx"
    sawEOF,       \* whether the consumer of Events() has seen the end of the stream
    \* ---- the cluster the informers watch ----
    pods,         \* history: the Pod objects that exist, by (namespace, name), as last delivered
    slices,       \* history: the EndpointSlice objects that exist, by (namespace, name), as last delivered
    \* ---- the agent's other tasks ----
    cpc,          \* where Cache.Start is: "sync", "blocked", "returned"
    epc,          \* where processEvents is: "select", "returned"
    \* ---- the connection records the loader reads ----
    wordAlign,    \* the build: the alignment of a uint64 (8 on 64-bit targets, 4 on 32-bit ones)
    connDecoded,  \* history: the lengths of the records readConnEvents decoded, in order
    connSkipped   \* history: the lengths of the records it skipped as too small, in order

expVars == <<queue, conn, stream, fpc, batch, flushErr, sendResult, nextId, takes,
             dropped, truncated, handed, discarded>>

histVars == <<hsm, hSamples, hOut>>

edgeVars == <<feed, edgeSeen, accLatencies, linkP99>>

aggVars == <<feedPos, observed, services, amu, opc, oev, oid, obsNext, unboundCalls, apc, snapshot, flushed, aggOut>>

cacheVars == <<heap, endpoints, podToServices, ppc, pEp, held, cacheEvents, done, lastOp>>

srvVars == <<ipc, totalAccepted, ack, sAccepted, batchesIn, storeConns, storeReqs,
             dpc, deps, depIn, depLinks, cycles>>

startVars == <<spc, backoff, ctxDone, waited, lastStep, finalFlush, lateFlushes, startErr>>

stopVars == <<lpc, stopCh, doneCh, stpc, beforeStop, written>>

nodeVars == <<nodeName, rawSeen, nodeQueue, wire, decoded>>

agentVars == <<mpc, ready, sub, lastProbe>>

loaderVars == <<lpcs, setup, collections, links, perf, lctx, rpc, evch, reads, releaseLog, startResult, sawEOF>>

clusterVars == <<pods, slices>>

taskVars == <<cpc, epc>>
recVars == <<wordAlign, connDecoded, connSkipped>>

vars == <<expVars, startVars, histVars, edgeVars, aggVars, stopVars, cacheVars, clusterVars, srvVars,
          nodeVars, agentVars, loaderVars, taskVars, recVars>>

---------------------------------------------------------------------------
(* Helpers on sequences *)

Min2(a, b) == IF a <= b THEN a ELSE b

Range(s) == {s[i] : i \in 1..Len(s)}

\* s[n:] of Go: s without its first n elements.
DropFirst(s, n) == SubSeq(s, n + 1, Len(s))

\* s[:n] of Go: the first n elements of s.
TakeFirst(s, n) == SubSeq(s, 1, n)

---------------------------------------------------------------------------
(* Export client *)

\* Exporter.queueLimit and Exporter.batchSize: the configured bound of the
\* queue and the largest batch (NewExporter sets 10000 and 100; the model
\* runs the same code with a small configuration).
queueLimit == 3
batchSize == 2
\* How many events the agent enqueues in a run.
MaxEnqueue == 6
\* How many batches flush takes out of the queue in a run.
MaxFlush == 4

ExporterInit ==
    /\ queue = <<>>
    /\ conn = "nil"
    /\ stream = "nil"
    /\ fpc = "idle"
    /\ batch = <<>>
    /\ flushErr = "none"
    /\ sendResult = "none"
    /\ nextId = 1
    /\ takes = 0
    /\ dropped = <<>>
    /\ truncated = {}
    /\ handed = {}
    /\ discarded = {}

\* A mutant of enqueuePush: the queue is allowed one event more than the bound.
enqueuePushOffByOne(q, evt) ==
    IF Len(q) > queueLimit THEN Append(DropFirst(q, 1), evt) ELSE Append(q, evt)

\* A mutant of enqueuePush: a full queue drops its newest event.
enqueuePushDropNewest(q, evt) ==
    IF Len(q) >= queueLimit THEN Append(TakeFirst(q, Len(q) - 1), evt) ELSE Append(q, evt)

\* The queue Enqueue leaves: the oldest event goes when the queue is full.
enqueuePush(q, evt) ==
    IF Len(q) >= queueLimit THEN Append(DropFirst(q, 1), evt) ELSE Append(q, evt)

\* The events of q that are no longer in q2, in q's order.
Gone(q, q2) == SelectSeq(q, LAMBDA e : e \notin Range(q2))

\* The drop count that can be read from the Exporter: its struct has no field
\* for it and Enqueue's overflow branch only cuts the queue and logs a
\* warning, so the value never moves from that of a new Exporter.
dropCounter == 0

\* Exporter.Enqueue, under e.mu from its first line to its last.
Enqueue ==
    /\ UNCHANGED <<histVars, edgeVars, aggVars, stopVars, cacheVars, clusterVars, srvVars, nodeVars, agentVars, loaderVars, taskVars, recVars>>
    /\ nextId <= MaxEnqueue
    /\ queue' = enqueuePush(queue, nextId)
    /\ dropped' = dropped \o Gone(queue, enqueuePush(queue, nextId))
    /\ nextId' = nextId + 1
    /\ UNCHANGED <<conn, stream, fpc, batch, flushErr, sendResult, takes, truncated,
                   handed, discarded>>

\* Exporter.connect, on a successful dial: the connection is kept and the
\* stream is set to nil. (A failed dial changes nothing of the Exporter.)
connect ==
    /\ UNCHANGED <<histVars, edgeVars, aggVars, stopVars, cacheVars, clusterVars, srvVars, nodeVars, agentVars, loaderVars, taskVars, recVars>>
    /\ fpc = "idle"
    /\ conn' = "open"
    /\ stream' = "nil"
    /\ UNCHANGED <<queue, fpc, batch, flushErr, sendResult, nextId, takes, dropped,
                   truncated, handed, discarded>>

\* The generated client's StreamEvents call that connect's comment stands in
\* for: it opens the stream on an open connection.
openStream ==
    /\ UNCHANGED <<histVars, edgeVars, aggVars, stopVars, cacheVars, clusterVars, srvVars, nodeVars, agentVars, loaderVars, taskVars, recVars>>
    /\ fpc = "idle"
    /\ conn = "open"
    /\ stream = "nil"
    /\ stream' = "open"
    /\ UNCHANGED <<queue, conn, fpc, batch, flushErr, sendResult, nextId, takes, dropped,
                   truncated, handed, discarded>>

\* Exporter.closeConn.
closeConn ==
    /\ UNCHANGED <<histVars, edgeVars, aggVars, stopVars, cacheVars, clusterVars, srvVars, nodeVars, agentVars, loaderVars, taskVars, recVars>>
    /\ fpc = "idle"
    /\ conn # "nil" \/ stream # "nil"
    /\ conn' = "nil"
    /\ stream' = "nil"
    /\ UNCHANGED <<queue, fpc, batch, flushErr, sendResult, nextId, takes, dropped,
                   truncated, handed, discarded>>

\* flush on an empty queue: returns nil at once.
flushEmpty ==
    /\ UNCHANGED <<histVars, edgeVars, aggVars, stopVars, cacheVars, clusterVars, srvVars, nodeVars, agentVars, loaderVars, taskVars, recVars>>
    /\ fpc = "idle"
    /\ Len(queue) = 0
    /\ flushErr' = "nil"
    /\ UNCHANGED <<queue, conn, stream, fpc, batch, sendResult, nextId, takes, dropped,
                   truncated, handed, discarded>>

\* The number of events flush takes.
flushCount(q) == Min2(batchSize, Len(q))

\* flush's first critical section: up to batchSize events are copied out of
\* the head of the queue and cut from it.
flushTake ==
    /\ UNCHANGED <<histVars, edgeVars, aggVars, stopVars, cacheVars, clusterVars, srvVars, nodeVars, agentVars, loaderVars, taskVars, recVars>>
    /\ fpc = "idle"
    /\ Len(queue) > 0
    /\ takes < MaxFlush
    /\ batch' = TakeFirst(queue, flushCount(queue))
    /\ queue' = DropFirst(queue, flushCount(queue))
    /\ fpc' = "taken"
    /\ takes' = takes + 1
    /\ sendResult' = "none"
    /\ UNCHANGED <<conn, stream, flushErr, nextId, dropped, truncated, handed,
                   discarded>>

\* flush with no stream: the batch is logged and flush returns nil; the
\* batch is a local of flush and goes with it.
flushNoStream ==
    /\ UNCHANGED <<histVars, edgeVars, aggVars, stopVars, cacheVars, clusterVars, srvVars, nodeVars, agentVars, loaderVars, taskVars, recVars>>
    /\ fpc = "taken"
    /\ stream = "nil"
    /\ discarded' = discarded \cup Range(batch)
    /\ batch' = <<>>
    /\ fpc' = "idle"
    /\ flushErr' = "nil"
    /\ UNCHANGED <<queue, conn, stream, sendResult, nextId, takes, dropped, truncated, handed>>

\* flush when stream.Send succeeds.
flushSendOk ==
    /\ UNCHANGED <<histVars, edgeVars, aggVars, stopVars, cacheVars, clusterVars, srvVars, nodeVars, agentVars, loaderVars, taskVars, recVars>>
    /\ fpc = "taken"
    /\ stream = "open"
    /\ handed' = handed \cup Range(batch)
    /\ batch' = <<>>
    /\ fpc' = "idle"
    /\ flushErr' = "nil"
    /\ sendResult' = "ok"
    /\ UNCHANGED <<queue, conn, stream, nextId, takes, dropped, truncated, discarded>>

\* A mutant of putBack: the batch goes behind the events enqueued meanwhile.
putBackBehind(b, q) ==
    LET remaining == q \o b
    IN IF Len(remaining) > queueLimit
       THEN DropFirst(remaining, Len(remaining) - queueLimit)
       ELSE remaining

\* A mutant of putBack: the put-back does not cut the queue to its bound.
putBackUncut(b, q) == b \o q

\* The queue flush's second critical section leaves after a failed Send:
\* remaining = batch ++ queue, cut to its last queueLimit events.
putBack(b, q) ==
    LET remaining == b \o q
    IN IF Len(remaining) > queueLimit
       THEN DropFirst(remaining, Len(remaining) - queueLimit)
       ELSE remaining

\* flush when stream.Send fails: the batch is put back and the error returned.
flushSendFail ==
    /\ UNCHANGED <<histVars, edgeVars, aggVars, stopVars, cacheVars, clusterVars, srvVars, nodeVars, agentVars, loaderVars, taskVars, recVars>>
    /\ fpc = "taken"
    /\ stream = "open"
    /\ queue' = putBack(batch, queue)
    /\ handed' = handed \cup Range(batch)
    /\ truncated' = truncated \cup (Range(batch \o queue) \ Range(putBack(batch, queue)))
    /\ batch' = <<>>
    /\ fpc' = "idle"
    /\ flushErr' = "err"
    /\ sendResult' = "fail"
    /\ UNCHANGED <<conn, stream, nextId, takes, dropped, discarded>>

\* The client's methods called in any order, outside Start.
ExporterNext ==
    \/ Enqueue /\ UNCHANGED startVars
    \/ connect /\ UNCHANGED startVars
    \/ openStream /\ UNCHANGED startVars
    \/ closeConn /\ UNCHANGED startVars
    \/ flushEmpty /\ UNCHANGED startVars
    \/ flushTake /\ UNCHANGED startVars
    \/ flushNoStream /\ UNCHANGED startVars
    \/ flushSendOk /\ UNCHANGED startVars
    \/ flushSendFail /\ UNCHANGED startVars

---------------------------------------------------------------------------
(* Exporter.Start: the reconnect loop around connect and flushLoop *)

\* initialReconnectBackoff and maxReconnectBackoff, in milliseconds.
initialReconnectBackoff == 500
maxReconnectBackoff == 30000
\* How many ticks of the ticker come due after the context is cancelled and
\* before flushLoop's select is evaluated again.
MaxLateTicks == 1

StartInit ==
    /\ spc = "top"
    /\ backoff = initialReconnectBackoff
    /\ ctxDone = FALSE
    /\ waited = 0
    /\ lastStep = "start"
    /\ finalFlush = 0
    /\ lateFlushes = 0
    /\ startErr = "none"

\* A mutant of nextBackoff: the backoff is never doubled.
nextBackoffFlat(b) == b

\* Start's "exponential backoff with cap":
\* math.Min(float64(backoff)*2, float64(maxReconnectBackoff)).
nextBackoff(b) == Min2(b * 2, maxReconnectBackoff)

\* The caller cancels the context it gave to Start.
cancel ==
    /\ UNCHANGED <<expVars, histVars, edgeVars, aggVars, stopVars, cacheVars, clusterVars, srvVars, nodeVars, agentVars, loaderVars, taskVars, recVars>>
    /\ ~ctxDone
    /\ ctxDone' = TRUE
    /\ UNCHANGED <<spc, backoff, waited, lastStep, finalFlush, lateFlushes, startErr>>

\* The head of Start's loop: a cancelled context closes the connection and
\* returns ctx.Err(); otherwise (the select's default) connect is called.
startTop ==
    /\ UNCHANGED <<histVars, edgeVars, aggVars, stopVars, cacheVars, clusterVars, srvVars, nodeVars, agentVars, loaderVars, taskVars, recVars>>
    /\ spc = "top"
    /\ IF ctxDone
       THEN /\ conn' = "nil"
            /\ stream' = "nil"
            /\ spc' = "returned"
            /\ startErr' = "ctx"
            /\ lastStep' = "return"
       ELSE /\ spc' = "dialing"
            /\ UNCHANGED <<conn, stream, startErr, lastStep>>
    /\ UNCHANGED <<queue, fpc, batch, flushErr, sendResult, nextId, takes, dropped,
                   truncated, handed, discarded>>
    /\ UNCHANGED <<backoff, ctxDone, waited, finalFlush, lateFlushes>>

\* connect returns nil (the dial, which takes the context, cannot succeed once
\* the context is cancelled): the connection is stored, the stream is nil, and
\* Start resets the backoff and enters flushLoop.
startDialOk ==
    /\ UNCHANGED <<histVars, edgeVars, aggVars, stopVars, cacheVars, clusterVars, srvVars, nodeVars, agentVars, loaderVars, taskVars, recVars>>
    /\ spc = "dialing"
    /\ ~ctxDone
    /\ conn' = "open"
    /\ stream' = "nil"
    /\ backoff' = initialReconnectBackoff
    /\ waited' = 0
    /\ lastStep' = "dialOk"
    /\ spc' = "loop"
    /\ UNCHANGED <<queue, fpc, batch, flushErr, sendResult, nextId, takes, dropped,
                   truncated, handed, discarded>>
    /\ UNCHANGED <<ctxDone, finalFlush, lateFlushes, startErr>>

\* connect returns an error: Start goes to its backoff select.
startDialFail ==
    /\ UNCHANGED <<expVars, histVars, edgeVars, aggVars, stopVars, cacheVars, clusterVars, srvVars, nodeVars, agentVars, loaderVars, taskVars, recVars>>
    /\ spc = "dialing"
    /\ spc' = "sleeping"
    /\ lastStep' = "dialFail"
    /\ UNCHANGED <<backoff, ctxDone, waited, finalFlush, lateFlushes, startErr>>

\* The backoff select's time.After(backoff) case: the wait was backoff long,
\* then the backoff is doubled up to the cap and the loop continues.
startSlept ==
    /\ UNCHANGED <<expVars, histVars, edgeVars, aggVars, stopVars, cacheVars, clusterVars, srvVars, nodeVars, agentVars, loaderVars, taskVars, recVars>>
    /\ spc = "sleeping"
    /\ waited' = backoff
    /\ backoff' = nextBackoff(backoff)
    /\ lastStep' = "slept"
    /\ spc' = "top"
    /\ UNCHANGED <<ctxDone, finalFlush, lateFlushes, startErr>>

\* The backoff select's ctx.Done() case: Start returns ctx.Err().
startSleepCancelled ==
    /\ UNCHANGED <<expVars, histVars, edgeVars, aggVars, stopVars, cacheVars, clusterVars, srvVars, nodeVars, agentVars, loaderVars, taskVars, recVars>>
    /\ spc = "sleeping"
    /\ ctxDone
    /\ spc' = "returned"
    /\ startErr' = "ctx"
    /\ lastStep' = "return"
    /\ UNCHANGED <<backoff, ctxDone, waited, finalFlush, lateFlushes>>

\* flushLoop's ticker case: flush is called; on an empty queue it returns nil
\* at once, otherwise it takes its batch.  The select takes this case also
\* when the context is cancelled, if a tick is pending at that moment.
flushLoopTick ==
    /\ spc = "loop"
    /\ ctxDone => lateFlushes < MaxLateTicks
    /\ \/ flushEmpty /\ spc' = "loop"
       \/ flushTake /\ spc' = "tick"
    /\ lateFlushes' = (IF ctxDone THEN lateFlushes + 1 ELSE lateFlushes)
    /\ UNCHANGED <<backoff, ctxDone, waited, lastStep, finalFlush, startErr>>

\* The ticker's flush ends: nil keeps flushLoop running, an error ends it.
flushLoopTickDone ==
    /\ spc = "tick"
    /\ \/ (flushNoStream \/ flushSendOk) /\ spc' = "loop"
       \/ flushSendFail /\ spc' = "broke"
    /\ UNCHANGED <<backoff, ctxDone, waited, lastStep, finalFlush, lateFlushes, startErr>>

\* flushLoop's ctx.Done() case: the final flush is called.
flushLoopDone ==
    /\ spc = "loop"
    /\ ctxDone
    /\ \/ flushEmpty /\ spc' = "stopped"
       \/ flushTake /\ spc' = "final"
    /\ finalFlush' = finalFlush + 1
    /\ lateFlushes' = lateFlushes + 1
    /\ UNCHANGED <<backoff, ctxDone, waited, lastStep, startErr>>

\* The final flush ends; whatever it returns, flushLoop returns ctx.Err().
flushLoopFinalDone ==
    /\ spc = "final"
    /\ flushNoStream \/ flushSendOk \/ flushSendFail
    /\ spc' = "stopped"
    /\ UNCHANGED <<backoff, ctxDone, waited, lastStep, finalFlush, lateFlushes, startErr>>

\* flushLoop returned an error to Start (a failed flush, or ctx.Err()): Start
\* logs it, closes the connection and goes back to the head of its loop.
startStreamError ==
    /\ spc \in {"broke", "stopped"}
    /\ closeConn
    /\ spc' = "top"
    /\ lastStep' = (IF spc = "broke" THEN "break" ELSE "stop")
    /\ UNCHANGED <<backoff, ctxDone, waited, finalFlush, lateFlushes, startErr>>

\* Start running in its goroutine, the agent enqueueing, the caller
\* cancelling; the stream is opened while flushLoop runs.
StartNext ==
    \/ Enqueue /\ UNCHANGED startVars
    \/ spc = "loop" /\ openStream /\ UNCHANGED startVars
    \/ cancel
    \/ startTop
    \/ startDialOk
    \/ startDialFail
    \/ startSlept
    \/ startSleepCancelled
    \/ flushLoopTick
    \/ flushLoopTickDone
    \/ flushLoopDone
    \/ flushLoopFinalDone
    \/ startStreamError


---------------------------------------------------------------------------
(* Latency histogram of the aggregator *)

\* defaultBucketBoundaries, in units of 500 000 ns (1e6 ns is 2, 1e10 ns is
\* 20000): the upper boundary of each bucket.
buckets == <<2, 10, 20, 50, 100, 200, 500, 1000, 2000, 5000, 10000, 20000>>

\* The sum of a function of numbers over 1..n.
RECURSIVE SumTo(_, _)
SumTo(f, n) == IF n = 0 THEN 0 ELSE f[n] + SumTo(f, n - 1)

\* getOrCreate's new serviceMetrics, the histogram part.
newHistogram == [latencyCounts |-> [i \in 1..(Len(buckets) + 1) |-> 0], latencySum |-> 0]

\* A mutant of bucketFrom: a sample equal to a boundary goes past it.
RECURSIVE bucketFromStrict(_, _)
bucketFromStrict(x, i) ==
    IF i > Len(buckets) THEN Len(buckets) + 1
    ELSE IF x < buckets[i] THEN i
    ELSE bucketFromStrict(x, i + 1)

\* The place (from 1) of the bucket observeLatency counts x in: the first
\* boundary with x <= boundary, or the +Inf bucket behind the last boundary.
RECURSIVE bucketFrom(_, _)
bucketFrom(x, i) ==
    IF i > Len(buckets) THEN Len(buckets) + 1
    ELSE IF x <= buckets[i] THEN i
    ELSE bucketFrom(x, i + 1)

bucketOf(x) == bucketFrom(x, 1)

\* A mutant of observeLatency: a sample above the last boundary is summed but
\* counted in no bucket.
observeLatencyNoOverflow(sm, latencyNs) ==
    IF bucketOf(latencyNs) > Len(buckets)
    THEN [sm EXCEPT !.latencySum = @ + latencyNs]
    ELSE [sm EXCEPT !.latencySum = @ + latencyNs,
                    !.latencyCounts[bucketOf(latencyNs)] = @ + 1]

\* observeLatency: the sum grows by the sample and one bucket by one.
observeLatency(sm, latencyNs) ==
    [sm EXCEPT !.latencySum = @ + latencyNs,
               !.latencyCounts[bucketOf(latencyNs)] = @ + 1]

\* totalHistogramCount.
totalHistogramCount(counts) == SumTo(counts, Len(counts))

\* How many samples one flush window holds in the model.
MaxSamples == 5

\* Quantiles are hundredths: q stands for q / 100.
QuantileDen == 100

RECURSIVE Gcd(_, _)
Gcd(a, b) == IF b = 0 THEN a ELSE Gcd(b, a % b)

RECURSIVE LcmTo(_)
LcmTo(n) == IF n <= 1 THEN 1 ELSE (LcmTo(n - 1) * n) \div Gcd(LcmTo(n - 1), n)

\* Percentiles are fractions: the float64 value v is held as the whole number
\* v * PScale, which is exact for every bucket count up to MaxSamples.
PScale == QuantileDen * LcmTo(MaxSamples)

\* The lower boundary histogramPercentile gives the bucket at place i (from 1).
lowerOf(bks, i) ==
    IF i = 1 THEN 0
    ELSE IF i - 1 <= Len(bks) THEN bks[i - 1]
    ELSE 0

\* A mutant of upperOf: the bucket's lower boundary is taken for its upper one.
upperOfFlat(bks, i) == lowerOf(bks, i)

\* The upper boundary histogramPercentile gives the bucket at place i: its
\* own boundary, and twice the last boundary for the +Inf bucket.
upperOf(bks, i) ==
    IF i <= Len(bks) THEN bks[i]
    ELSE IF Len(bks) > 0 THEN bks[Len(bks)] * 2
    ELSE 0

\* A mutant of interpolate: the fraction is taken from the bucket's far end,
\* (cumulative - target) / count.
interpolateFromEnd(bks, counts, total, quantile, i, prevCumulative) ==
    IF counts[i] = 0 THEN lowerOf(bks, i) * PScale
    ELSE lowerOf(bks, i) * PScale
         + (PScale \div (QuantileDen * counts[i]))
           * (QuantileDen * (prevCumulative + counts[i]) - quantile * total)
           * (upperOf(bks, i) - lowerOf(bks, i))

\* The linear interpolation in bucket i, as value * PScale:
\* lower + (target - prevCumulative) / count * (upper - lower), where
\* target = quantile / 100 * total.
interpolate(bks, counts, total, quantile, i, prevCumulative) ==
    IF counts[i] = 0 THEN lowerOf(bks, i) * PScale
    ELSE lowerOf(bks, i) * PScale
         + (PScale \div (QuantileDen * counts[i]))
           * (quantile * total - QuantileDen * prevCumulative)
           * (upperOf(bks, i) - lowerOf(bks, i))

\* histogramPercentile's loop from place i on, with the counts before i
\* summed in `before`.
RECURSIVE percentileFrom(_, _, _, _, _, _)
percentileFrom(bks, counts, total, quantile, i, before) ==
    IF i > Len(counts)
    THEN (IF Len(bks) > 0 THEN bks[Len(bks)] * PScale ELSE 0)
    ELSE IF QuantileDen * (before + counts[i]) >= quantile * total
         THEN interpolate(bks, counts, total, quantile, i, before)
         ELSE percentileFrom(bks, counts, total, quantile, i + 1, before + counts[i])

\* A mutant of histogramPercentile: the bucket after the target's is used.
histogramPercentileNextBucket(bks, counts, total, quantile) ==
    LET RECURSIVE walk(_, _)
        walk(i, before) ==
            IF i > Len(counts)
            THEN (IF Len(bks) > 0 THEN bks[Len(bks)] * PScale ELSE 0)
            ELSE IF QuantileDen * (before + counts[i]) >= quantile * total
                 THEN upperOf(bks, i + 1) * PScale
                 ELSE walk(i + 1, before + counts[i])
    IN walk(1, 0)

\* histogramPercentile(buckets, counts, total, quantile), as value * PScale.
histogramPercentile(bks, counts, total, quantile) ==
    percentileFrom(bks, counts, total, quantile, 1, 0)

\* flush's latency values for one service: P50, P95 and P99 when the
\* histogram holds a sample, nothing otherwise.
latencyValues(sm) ==
    LET totalCount == totalHistogramCount(sm.latencyCounts)
    IN IF totalCount > 0
       THEN << histogramPercentile(buckets, sm.latencyCounts, totalCount, 50),
               histogramPercentile(buckets, sm.latencyCounts, totalCount, 95),
               histogramPercentile(buckets, sm.latencyCounts, totalCount, 99) >>
       ELSE <<>>

\* The samples the model observes, in units of 500 000 ns.
SampleValues == {1, 2, 3, 9, 60, 15000, 30000, 50000}

HistInit ==
    /\ hsm = newHistogram
    /\ hSamples = [x \in SampleValues |-> 0]
    /\ hOut = <<>>

\* One latency sample is observed (ObserveConnection and ObserveHTTPRequest
\* call observeLatency for a duration or latency above 0).
HistObserve ==
    /\ UNCHANGED <<expVars, startVars, edgeVars, aggVars, stopVars, cacheVars, clusterVars, srvVars, nodeVars, agentVars, loaderVars, taskVars, recVars>>
    /\ hOut = <<>>
    /\ totalHistogramCount(hsm.latencyCounts) < MaxSamples
    /\ \E x \in SampleValues :
          /\ x > 0
          /\ hsm' = observeLatency(hsm, x)
          /\ hSamples' = [hSamples EXCEPT ![x] = @ + 1]
    /\ UNCHANGED hOut

\* flush for the one service: the percentiles of the swapped-out histogram
\* are computed and the accumulator starts again.
HistFlush ==
    /\ UNCHANGED <<expVars, startVars, edgeVars, aggVars, stopVars, cacheVars, clusterVars, srvVars, nodeVars, agentVars, loaderVars, taskVars, recVars>>
    /\ hOut = <<>>
    /\ totalHistogramCount(hsm.latencyCounts) > 0
    /\ hOut' = latencyValues(hsm)
    /\ hsm' = newHistogram
    /\ hSamples' = [x \in SampleValues |-> 0]

\* The metric writer takes the latency points.
HistWrite ==
    /\ UNCHANGED <<expVars, startVars, edgeVars, aggVars, stopVars, cacheVars, clusterVars, srvVars, nodeVars, agentVars, loaderVars, taskVars, recVars>>
    /\ hOut # <<>>
    /\ hOut' = <<>>
    /\ UNCHANGED <<hsm, hSamples>>

HistNext ==
    \/ HistObserve
    \/ HistFlush
    \/ HistWrite

---------------------------------------------------------------------------
(* Dependency computer: the latency samples and the P99 of one edge *)

\* How many request events of the edge one compute cycle reads.
MaxEdgeEvents == 100

\* The synthetic streams: the latencies 1, 2, 3, ... rising, falling, in a
\* mixed order (37 * i mod 101 runs through 1..100 once), and a stream in
\* which every second event has no latency.
Feeds == {"rising", "falling", "mixed", "gaps"}

LatencyOf(f, i) ==
    CASE f = "rising" -> i
      [] f = "falling" -> MaxEdgeEvents + 1 - i
      [] f = "mixed" -> (37 * i) % 101
      [] f = "gaps" -> IF i % 2 = 0 THEN 0 ELSE i

\* sort.Slice with less = sorted[i] < sorted[j], on a copy: the samples in
\* ascending order. The element at place k is the sample with fewer than k
\* samples below it and at least k samples not above it.
SortAsc(s) ==
    [k \in 1..Len(s) |->
        CHOOSE x \in Range(s) :
            /\ Cardinality({i \in 1..Len(s) : s[i] < x}) < k
            /\ k <= Cardinality({i \in 1..Len(s) : s[i] <= x})]

\* computeP99's index (from 0): int(float64(n)*0.99 + 0.5) - 1, clamped to
\* [0, n-1]. n*0.99 + 0.5 is (99n + 50) / 100 and int() cuts the fraction.
p99Index(n) ==
    LET idx == ((99 * n + 50) \div 100) - 1
    IN IF idx < 0 THEN 0
       ELSE IF idx >= n THEN n - 1
       ELSE idx

\* computeP99.
computeP99(latencies) ==
    IF Len(latencies) = 0 THEN 0
    ELSE SortAsc(latencies)[p99Index(Len(latencies)) + 1]

\* The edge before any compute cycle, reading the given stream.
EdgeStart(f) ==
    /\ feed = f
    /\ edgeSeen = 0
    /\ accLatencies = <<>>
    /\ linkP99 = -1

EdgeInit == \E f \in Feeds : EdgeStart(f)

\* addHTTPRequestEvent for the next event of the stream, which is an event
\* of the edge: its latency is kept when it is above 0.
addHTTPRequestEvent ==
    /\ UNCHANGED <<expVars, startVars, histVars, aggVars, stopVars, cacheVars, clusterVars, srvVars, nodeVars, agentVars, loaderVars, taskVars, recVars>>
    /\ linkP99 = -1
    /\ edgeSeen < MaxEdgeEvents
    /\ edgeSeen' = edgeSeen + 1
    /\ accLatencies' = IF LatencyOf(feed, edgeSeen + 1) > 0
                       THEN Append(accLatencies, LatencyOf(feed, edgeSeen + 1))
                       ELSE accLatencies
    /\ UNCHANGED <<feed, linkP99>>

\* buildLinks for the edge: the link's P99 is computeP99 of the samples.
buildLinks ==
    /\ UNCHANGED <<expVars, startVars, histVars, aggVars, stopVars, cacheVars, clusterVars, srvVars, nodeVars, agentVars, loaderVars, taskVars, recVars>>
    /\ linkP99 = -1
    /\ linkP99' = computeP99(accLatencies)
    /\ UNCHANGED <<feed, edgeSeen, accLatencies>>

\* compute's start of the next cycle: the accumulators are reset.
resetDeps ==
    /\ UNCHANGED <<expVars, startVars, histVars, aggVars, stopVars, cacheVars, clusterVars, srvVars, nodeVars, agentVars, loaderVars, taskVars, recVars>>
    /\ linkP99 # -1
    /\ accLatencies' = <<>>
    /\ edgeSeen' = 0
    /\ linkP99' = -1
    /\ UNCHANGED feed

EdgeNext ==
    \/ addHTTPRequestEvent
    \/ buildLinks
    \/ resetDeps

---------------------------------------------------------------------------
(* Metrics aggregator *)

\* The ingestion streams that call Observe, each on its own goroutine.
Streams == {"s1", "s2"}

\* How many Observe calls and how many flushes a run has.
MaxObs == 3
MaxAggFlush == 2

ConnEvent(src, dst, srcNs, lat, sent, recv) ==
    [kind |-> "conn", src |-> src, dst |-> dst, srcNs |-> srcNs, dstNs |-> "",
     status |-> 0, latency |-> lat, bytesSent |-> sent, bytesRecv |-> recv]

HTTPEvent(src, dst, dstNs, status, lat) ==
    [kind |-> "http", src |-> src, dst |-> dst, srcNs |-> "", dstNs |-> dstNs,
     status |-> status, latency |-> lat, bytesSent |-> 0, bytesRecv |-> 0]

\* The events the streams carry (latencies in units of 500 000 ns).
AggEvents ==
    { ConnEvent("api", "web", "prod", 3, 1, 2),
      ConnEvent("", "web", "", 0, 2, 0),
      ConnEvent("", "", "prod", 9, 1, 1),
      HTTPEvent("api", "web", "prod", 200, 3),
      HTTPEvent("web", "", "", 500, 30000),
      HTTPEvent("api", "api", "stage", 503, 0),
      HTTPEvent("", "", "prod", 200, 3) }

NoEvent == [kind |-> "none"]

\* The service an event is counted under, "" when it has none.
boundService(ev) ==
    IF ev.kind = "conn"
    THEN (IF ev.src # "" THEN ev.src ELSE ev.dst)
    ELSE (IF ev.dst # "" THEN ev.dst ELSE ev.src)

\* The namespace Observe gives getOrCreate.
eventNamespace(ev) == IF ev.kind = "conn" THEN ev.srcNs ELSE ev.dstNs

\* getOrCreate's new serviceMetrics; obs is history: the observations counted.
newServiceMetrics(namespace) ==
    [namespace |-> namespace,
     latencyCounts |-> newHistogram.latencyCounts,
     latencySum |-> 0,
     callCount |-> 0, errorCount |-> 0, bytesSent |-> 0, bytesRecv |-> 0,
     obs |-> {}]

\* getOrCreate: the map with an entry for the service.
getOrCreate(svcs, service, namespace) ==
    IF service \in DOMAIN svcs THEN svcs
    ELSE [x \in DOMAIN svcs \cup {service} |->
             IF x = service THEN newServiceMetrics(namespace) ELSE svcs[x]]

\* What ObserveConnection and ObserveHTTPRequest do to the serviceMetrics.
observeInto(sm, ev, id) ==
    LET counted == [sm EXCEPT !.callCount = @ + 1,
                              !.bytesSent = @ + (IF ev.kind = "conn" THEN ev.bytesSent ELSE 0),
                              !.bytesRecv = @ + (IF ev.kind = "conn" THEN ev.bytesRecv ELSE 0),
                              !.errorCount = @ + (IF ev.kind = "http" /\ ev.status >= 500 THEN 1 ELSE 0),
                              !.obs = @ \cup {id}]
    IN IF ev.latency > 0 THEN observeLatency(counted, ev.latency) ELSE counted

\* The map after the locked part of an Observe call.
observe(svcs, ev, id) ==
    LET svc == boundService(ev)
        made == getOrCreate(svcs, svc, eventNamespace(ev))
    IN [made EXCEPT ![svc] = observeInto(@, ev, id)]

EmptyMap == [x \in {} |-> 0]

\* The points one flush makes of its snapshot. A latency point's value is
\* value * PScale; an error rate is <<errors, calls>> for errors / calls
\* (0 when there are no calls).
pointsOf(snap) ==
    [latency |-> {[service |-> svc, namespace |-> snap[svc].namespace,
                   quantile |-> q[1], value |-> latencyValues(snap[svc])[q[2]]] :
                     svc \in {x \in DOMAIN snap : latencyValues(snap[x]) # <<>>},
                     q \in {<<50, 1>>, <<95, 2>>, <<99, 3>>}},
     call_rate |-> {[service |-> svc, namespace |-> snap[svc].namespace,
                     value |-> snap[svc].callCount] : svc \in DOMAIN snap},
     error_rate |-> {[service |-> svc, namespace |-> snap[svc].namespace,
                      value |-> IF snap[svc].callCount > 0
                                THEN <<snap[svc].errorCount, snap[svc].callCount>>
                                ELSE <<0, 1>>] : svc \in DOMAIN snap},
     traffic |-> {[service |-> svc, namespace |-> snap[svc].namespace,
                   direction |-> d,
                   value |-> IF d = "sent" THEN snap[svc].bytesSent ELSE snap[svc].bytesRecv] :
                     svc \in DOMAIN snap, d \in {"sent", "recv"}}]

NoPoints == [latency |-> {}, call_rate |-> {}, error_rate |-> {}, traffic |-> {}]

AggInit ==
    /\ services = EmptyMap
    /\ amu = "free"
    /\ opc = [t \in Streams |-> "idle"]
    /\ oev = [t \in Streams |-> NoEvent]
    /\ oid = [t \in Streams |-> 0]
    /\ obsNext = 1
    /\ unboundCalls = 0
    /\ apc = "idle"
    /\ snapshot = EmptyMap
    /\ flushed = <<>>
    /\ aggOut = NoPoints
    /\ feedPos = 0
    /\ observed = <<>>

\* The flush loop is not started, Stop is not called, both channels are open.
StopInit ==
    /\ lpc = "off"
    /\ stopCh = "open"
    /\ doneCh = "open"
    /\ stpc = "idle"
    /\ beforeStop = {}
    /\ written = {}

\* An Observe call for an event with no service on either side: it returns
\* before it takes the lock.
observeUnbound(t) ==
    /\ UNCHANGED <<expVars, startVars, histVars, edgeVars, cacheVars, clusterVars, srvVars, nodeVars, agentVars, loaderVars, taskVars, recVars, feedPos, observed>>
    /\ opc[t] = "idle"
    /\ obsNext + unboundCalls <= MaxObs
    /\ \E ev \in AggEvents : boundService(ev) = ""
    /\ unboundCalls' = unboundCalls + 1
    /\ UNCHANGED <<services, amu, opc, oev, oid, obsNext, apc, snapshot, flushed, aggOut>>

\* An Observe call up to a.mu.Lock().
observeLock(t) ==
    /\ UNCHANGED <<expVars, startVars, histVars, edgeVars, cacheVars, clusterVars, srvVars, nodeVars, agentVars, loaderVars, taskVars, recVars, feedPos>>
    /\ opc[t] = "idle"
    /\ obsNext + unboundCalls <= MaxObs
    /\ amu = "free"
    /\ \E ev \in AggEvents :
          /\ boundService(ev) # ""
          /\ oev' = [oev EXCEPT ![t] = ev]
          /\ observed' = Append(observed, ev)
    /\ amu' = t
    /\ opc' = [opc EXCEPT ![t] = "locked"]
    /\ oid' = [oid EXCEPT ![t] = obsNext]
    /\ obsNext' = obsNext + 1
    /\ UNCHANGED <<services, unboundCalls, apc, snapshot, flushed, aggOut>>

\* The locked part of an Observe call, to the deferred Unlock.
observeBody(t) ==
    /\ UNCHANGED <<expVars, startVars, histVars, edgeVars, cacheVars, clusterVars, srvVars, nodeVars, agentVars, loaderVars, taskVars, recVars, feedPos, observed>>
    /\ opc[t] = "locked"
    /\ amu = t
    /\ services' = observe(services, oev[t], oid[t])
    /\ amu' = "free"
    /\ opc' = [opc EXCEPT ![t] = "idle"]
    /\ oev' = [oev EXCEPT ![t] = NoEvent]
    /\ oid' = [oid EXCEPT ![t] = 0]
    /\ UNCHANGED <<obsNext, unboundCalls, apc, snapshot, flushed, aggOut>>

\* flush up to a.mu.Lock().
aggFlushLock ==
    /\ UNCHANGED <<expVars, startVars, histVars, edgeVars, cacheVars, clusterVars, srvVars, nodeVars, agentVars, loaderVars, taskVars, recVars, feedPos, observed>>
    /\ apc = "idle"
    /\ Len(flushed) < MaxAggFlush
    /\ amu = "free"
    /\ amu' = "flush"
    /\ apc' = "locked"
    /\ UNCHANGED <<services, opc, oev, oid, obsNext, unboundCalls, snapshot, flushed, aggOut>>

\* A mutant of swapLive: the live map is not replaced.
swapLiveKept(svcs) == svcs

\* The live map flush leaves behind: a new, empty one.
swapLive(svcs) == EmptyMap

\* The snapshot flush takes: the live map as it is.
swapSnapshot(svcs) == svcs

\* flush's swap under the lock, to a.mu.Unlock().
aggFlushSwap ==
    /\ UNCHANGED <<expVars, startVars, histVars, edgeVars, cacheVars, clusterVars, srvVars, nodeVars, agentVars, loaderVars, taskVars, recVars, feedPos, observed>>
    /\ apc = "locked"
    /\ amu = "flush"
    /\ snapshot' = swapSnapshot(services)
    /\ services' = swapLive(services)
    /\ flushed' = Append(flushed, swapSnapshot(services))
    /\ amu' = "free"
    /\ apc' = "swapped"
    /\ UNCHANGED <<opc, oev, oid, obsNext, unboundCalls, aggOut>>

\* flush after the swap: an empty snapshot ends it, any other is turned into
\* points and written.
aggFlushEmit ==
    /\ UNCHANGED <<expVars, startVars, histVars, edgeVars, cacheVars, clusterVars, srvVars, nodeVars, agentVars, loaderVars, taskVars, recVars, feedPos, observed>>
    /\ apc = "swapped"
    /\ aggOut' = IF DOMAIN snapshot = {} THEN aggOut ELSE pointsOf(snapshot)
    /\ snapshot' = EmptyMap
    /\ apc' = "idle"
    /\ UNCHANGED <<services, amu, opc, oev, oid, obsNext, unboundCalls, flushed>>

\* The ten requests to service api of the worked example, all answered with
\* status 200: latencies 2, 4, 8, 15, 40, 90, 200, 400, 900 and 3000 ms.
FeedLatencies == <<4, 8, 16, 30, 80, 180, 400, 800, 1800, 6000>>

FeedEvents == [i \in 1..Len(FeedLatencies) |-> HTTPEvent("web", "api", "prod", 200, FeedLatencies[i])]

\* An ObserveHTTPRequest call for the next event of the feed, up to a.mu.Lock().
observeFeed(t) ==
    /\ UNCHANGED <<expVars, startVars, histVars, edgeVars, cacheVars, clusterVars, srvVars, nodeVars, agentVars, loaderVars, taskVars, recVars>>
    /\ opc[t] = "idle"
    /\ feedPos < Len(FeedEvents)
    /\ amu = "free"
    /\ feedPos' = feedPos + 1
    /\ oev' = [oev EXCEPT ![t] = FeedEvents[feedPos + 1]]
    /\ observed' = Append(observed, FeedEvents[feedPos + 1])
    /\ amu' = t
    /\ opc' = [opc EXCEPT ![t] = "locked"]
    /\ oid' = [oid EXCEPT ![t] = obsNext]
    /\ obsNext' = obsNext + 1
    /\ UNCHANGED <<services, unboundCalls, apc, snapshot, flushed, aggOut>>

\* The streams carry the feed, and flush runs when its ticker fires.
AggFeedNext ==
    \/ \E t \in Streams : observeFeed(t) /\ UNCHANGED stopVars
    \/ \E t \in Streams : observeBody(t) /\ UNCHANGED stopVars
    \/ aggFlushLock /\ UNCHANGED stopVars
    \/ aggFlushSwap /\ UNCHANGED stopVars
    \/ aggFlushEmit /\ UNCHANGED stopVars

AggNext ==
    \/ \E t \in Streams : observeUnbound(t) /\ UNCHANGED stopVars
    \/ \E t \in Streams : observeLock(t) /\ UNCHANGED stopVars
    \/ \E t \in Streams : observeBody(t) /\ UNCHANGED stopVars
    \/ aggFlushLock /\ UNCHANGED stopVars
    \/ aggFlushSwap /\ UNCHANGED stopVars
    \/ aggFlushEmit /\ UNCHANGED stopVars

---------------------------------------------------------------------------
(* Kubernetes metadata cache *)

\* How many informer events are delivered and how many Lookup calls are made.
MaxCacheEvents == 2
MaxLookups == 2

\* Object names are sequences of characters, so that stripReplicaSetHash can
\* cut them; <<>> is the empty name.
FrontendName == <<"f", "e">>
FrontendRS == <<"f", "e", "-", "6", "b", "8", "f", "7">>
BareRS == <<"d", "b", "-", "1", "a", "2", "b", "3", "c">>

\* The ReplicaSets the API server knows, with their ownerReferences.
ReplicaSets ==
    [rs \in {FrontendRS, BareRS} |->
        IF rs = FrontendRS THEN << [kind |-> "Deployment", name |-> FrontendName] >> ELSE <<>>]

\* The Pod objects the pod informer delivers.
PodObjects ==
    { [id |-> "p1@5", name |-> <<"p", "1">>, namespace |-> "shop", podIP |-> "10.0.0.5",
       owners |-> << [kind |-> "ReplicaSet", name |-> FrontendRS] >>],
      [id |-> "p1@6", name |-> <<"p", "1">>, namespace |-> "shop", podIP |-> "10.0.0.6",
       owners |-> << [kind |-> "ReplicaSet", name |-> FrontendRS] >>],
      [id |-> "p2@5", name |-> <<"p", "2">>, namespace |-> "shop", podIP |-> "10.0.0.5",
       owners |-> << [kind |-> "ReplicaSet", name |-> BareRS] >>],
      [id |-> "p3", name |-> <<"p", "3">>, namespace |-> "shop", podIP |-> "",
       owners |-> <<>>],
      [id |-> "p4@6", name |-> <<"p", "4">>, namespace |-> "ops", podIP |-> "10.0.0.6",
       owners |-> <<>>] }

NoRef == [kind |-> "nil", name |-> <<>>]

\* The EndpointSlice objects the slice informer delivers; label is the
\* kubernetes.io/service-name label, "" when the slice has none.
SliceObjects ==
    { [id |-> "s1", namespace |-> "shop", label |-> "frontend-svc",
       eps |-> << [targetRef |-> [kind |-> "Pod", name |-> <<"p", "1">>],
                   addresses |-> <<"10.0.0.5">>] >>],
      [id |-> "s2", namespace |-> "shop", label |-> "backend-svc",
       eps |-> << [targetRef |-> [kind |-> "Pod", name |-> <<"p", "2">>],
                   addresses |-> <<"10.0.0.5">>],
                  [targetRef |-> NoRef, addresses |-> <<"10.0.0.6">>] >>],
      [id |-> "s3", namespace |-> "shop", label |-> "",
       eps |-> << [targetRef |-> [kind |-> "Pod", name |-> <<"p", "1">>],
                   addresses |-> <<"10.0.0.5">>] >>] }

\* The addresses callers look up.
LookupIPs == {"10.0.0.5", "10.0.0.6"}

MapPut(m, k, v) == [x \in DOMAIN m \cup {k} |-> IF x = k THEN v ELSE m[x]]

MapDel(m, k) == [x \in DOMAIN m \ {k} |-> m[x]]

\* strings.LastIndex(name, "-"), counted from 0; -1 when there is none.
LastDash(name) ==
    LET at == {i \in 1..Len(name) : name[i] = "-"}
    IN IF at = {} THEN -1 ELSE (CHOOSE i \in at : \A j \in at : j <= i) - 1

stripReplicaSetHash(name) ==
    LET idx == LastDash(name)
    IN IF idx <= 0 THEN name
       ELSE LET suffix == SubSeq(name, idx + 2, Len(name))
            IN IF Len(suffix) >= 5 /\ Len(suffix) <= 16
               THEN SubSeq(name, 1, idx)
               ELSE name

\* The name of the Deployment that owns the ReplicaSet, <<>> when the Get
\* fails or no owner is a Deployment.
resolveReplicaSetOwner(namespace, rsName) ==
    IF rsName \notin DOMAIN ReplicaSets THEN <<>>
    ELSE LET refs == ReplicaSets[rsName]
             at == {i \in 1..Len(refs) : refs[i].kind = "Deployment"}
         IN IF at = {} THEN <<>>
            ELSE refs[CHOOSE i \in at : \A j \in at : i <= j].name

\* <<name, kind>> of the pod's top-level workload.
resolveWorkload(pod) ==
    IF Len(pod.owners) = 0 THEN <<pod.name, "Pod">>
    ELSE LET owner == pod.owners[1]
         IN IF owner.kind = "ReplicaSet"
            THEN LET deployName == resolveReplicaSetOwner(pod.namespace, owner.name)
                 IN IF deployName # <<>>
                    THEN <<deployName, "Deployment">>
                    ELSE <<stripReplicaSetHash(owner.name), "ReplicaSet">>
            ELSE <<owner.name, owner.kind>>

\* podToServices[namespace + "/" + podName], "" when there is no entry.
lookupServiceForPod(p2s, namespace, podName) ==
    IF <<namespace, podName>> \in DOMAIN p2s THEN p2s[<<namespace, podName>>] ELSE ""

\* The Endpoint onPodAdd builds.
podEndpoint(pod, p2s) ==
    [ip |-> pod.podIP, port |-> 0, pod |-> pod.name, namespace |-> pod.namespace,
     workload |-> resolveWorkload(pod)[1], workloadType |-> resolveWorkload(pod)[2],
     service |-> lookupServiceForPod(p2s, pod.namespace, pod.name)]

NilEndpoint ==
    [ip |-> "", port |-> 0, pod |-> <<>>, namespace |-> "",
     workload |-> <<>>, workloadType |-> "", service |-> ""]

NoLocal == [id |-> "", ep |-> NilEndpoint]

CacheInit ==
    /\ heap = <<>>
    /\ endpoints = EmptyMap
    /\ podToServices = EmptyMap
    /\ ppc = "idle"
    /\ pEp = NoLocal
    /\ held = <<>>
    /\ cacheEvents = 0
    /\ done = {}
    /\ lastOp = "none"
    /\ pods = EmptyMap
    /\ slices = EmptyMap

\* onPodAdd through the building of ep: a pod without an IP ends the handler;
\* otherwise the workload is resolved and the pod's service is read under the
\* read lock, which is released before the table is written.
onPodAdd(pod) ==
    /\ UNCHANGED <<expVars, startVars, histVars, edgeVars, aggVars, stopVars, srvVars, nodeVars, agentVars, loaderVars, taskVars, recVars>>
    /\ ppc = "idle"
    /\ cacheEvents < MaxCacheEvents
    /\ cacheEvents' = cacheEvents + 1
    /\ IF pod.podIP = ""
       THEN /\ done' = done \cup {[op |-> "podAdd", id |-> pod.id]}
            /\ UNCHANGED <<ppc, pEp>>
       ELSE /\ ppc' = "built"
            /\ pEp' = [id |-> pod.id, ep |-> podEndpoint(pod, podToServices)]
            /\ UNCHANGED done
    /\ lastOp' = "pod"
    /\ UNCHANGED <<heap, endpoints, podToServices, held>>

\* onPodAdd's write of the table under the write lock.
onPodAddStore ==
    /\ UNCHANGED <<expVars, startVars, histVars, edgeVars, aggVars, stopVars, srvVars, nodeVars, agentVars, loaderVars, taskVars, recVars>>
    /\ ppc = "built"
    /\ heap' = Append(heap, pEp.ep)
    /\ endpoints' = MapPut(endpoints, pEp.ep.ip, Len(heap) + 1)
    /\ done' = done \cup {[op |-> "podAdd", id |-> pEp.id]}
    /\ ppc' = "idle"
    /\ pEp' = NoLocal
    /\ lastOp' = "pod"
    /\ UNCHANGED <<podToServices, held, cacheEvents>>

onPodDelete(pod) ==
    /\ UNCHANGED <<expVars, startVars, histVars, edgeVars, aggVars, stopVars, srvVars, nodeVars, agentVars, loaderVars, taskVars, recVars>>
    /\ ppc = "idle"
    /\ cacheEvents < MaxCacheEvents
    /\ cacheEvents' = cacheEvents + 1
    /\ endpoints' = IF pod.podIP = "" THEN endpoints ELSE MapDel(endpoints, pod.podIP)
    /\ done' = done \cup {[op |-> "podDelete", id |-> pod.id]}
    /\ lastOp' = "pod"
    /\ UNCHANGED <<heap, podToServices, ppc, pEp, held>>

\* The pod keys an EndpointSlice's endpoints target.
slicePodKeys(eps) ==
    {<<eps.namespace, eps.eps[i].targetRef.name>> :
        i \in {j \in 1..Len(eps.eps) : eps.eps[j].targetRef.kind = "Pod"}}

\* The addresses an EndpointSlice's endpoints list.
sliceAddresses(eps) ==
    UNION {Range(eps.eps[i].addresses) : i \in 1..Len(eps.eps)}

\* The pointers of the table rows at the slice's addresses.
sliceRows(eps, table) == {table[a] : a \in sliceAddresses(eps) \cap DOMAIN table}

\* The heap after existing.Service = svcName for every row at the slice's addresses.
setService(h, rows, svcName) ==
    [i \in 1..Len(h) |-> IF i \in rows THEN [h[i] EXCEPT !.service = svcName] ELSE h[i]]

onEndpointSliceUpdate(eps) ==
    /\ UNCHANGED <<expVars, startVars, histVars, edgeVars, aggVars, stopVars, srvVars, nodeVars, agentVars, loaderVars, taskVars, recVars>>
    /\ cacheEvents < MaxCacheEvents
    /\ cacheEvents' = cacheEvents + 1
    /\ IF eps.label = ""
       THEN UNCHANGED <<podToServices, heap>>
       ELSE /\ podToServices' =
                 [k \in DOMAIN podToServices \cup slicePodKeys(eps) |->
                     IF k \in slicePodKeys(eps) THEN eps.label ELSE podToServices[k]]
            /\ heap' = setService(heap, sliceRows(eps, endpoints), eps.label)
    /\ done' = done \cup {[op |-> "sliceUpdate", id |-> eps.id]}
    /\ lastOp' = "slice"
    /\ UNCHANGED <<endpoints, ppc, pEp, held>>

onEndpointSliceDelete(eps) ==
    /\ UNCHANGED <<expVars, startVars, histVars, edgeVars, aggVars, stopVars, srvVars, nodeVars, agentVars, loaderVars, taskVars, recVars>>
    /\ cacheEvents < MaxCacheEvents
    /\ cacheEvents' = cacheEvents + 1
    /\ podToServices' = [k \in DOMAIN podToServices \ slicePodKeys(eps) |-> podToServices[k]]
    /\ heap' = setService(heap, sliceRows(eps, endpoints), "")
    /\ done' = done \cup {[op |-> "sliceDelete", id |-> eps.id]}
    /\ lastOp' = "slice"
    /\ UNCHANGED <<endpoints, ppc, pEp, held>>

\* A mutant of lookupCopy: the row's own pointer is returned.
lookupAlias(h, ptr) == <<h, ptr>>

\* copy := *ep; return &copy : the heap with the copy, and the copy's pointer.
lookupCopy(h, ptr) == <<Append(h, h[ptr]), Len(h) + 1>>

\* Lookup: nil (pointer 0) for an unknown address, else a copy of the row.
Lookup(ip) ==
    /\ UNCHANGED <<expVars, startVars, histVars, edgeVars, aggVars, stopVars, srvVars, nodeVars, agentVars, loaderVars, taskVars, recVars>>
    /\ Len(held) < MaxLookups
    /\ IF ip \notin DOMAIN endpoints
       THEN /\ held' = Append(held, 0)
            /\ UNCHANGED heap
       ELSE /\ heap' = lookupCopy(heap, endpoints[ip])[1]
            /\ held' = Append(held, lookupCopy(heap, endpoints[ip])[2])
    /\ lastOp' = "lookup"
    /\ UNCHANGED <<endpoints, podToServices, ppc, pEp, cacheEvents, done>>

\* A caller writes the Service field of an endpoint Lookup gave it.
callerWrite(i) ==
    /\ UNCHANGED <<expVars, startVars, histVars, edgeVars, aggVars, stopVars, srvVars, nodeVars, agentVars, loaderVars, taskVars, recVars>>
    /\ held[i] # 0
    /\ heap[held[i]].service # "changed"
    /\ heap' = [heap EXCEPT ![held[i]].service = "changed"]
    /\ lastOp' = "caller"
    /\ UNCHANGED <<endpoints, podToServices, ppc, pEp, held, cacheEvents, done>>

CacheNext ==
    \/ \E pod \in PodObjects : onPodAdd(pod) /\ UNCHANGED clusterVars
    \/ onPodAddStore /\ UNCHANGED clusterVars
    \/ \E pod \in PodObjects : onPodDelete(pod) /\ UNCHANGED clusterVars
    \/ \E eps \in SliceObjects : onEndpointSliceUpdate(eps) /\ UNCHANGED clusterVars
    \/ \E eps \in SliceObjects : onEndpointSliceDelete(eps) /\ UNCHANGED clusterVars
    \/ \E ip \in LookupIPs : Lookup(ip) /\ UNCHANGED clusterVars
    \/ \E i \in 1..Len(held) : callerWrite(i) /\ UNCHANGED clusterVars

---------------------------------------------------------------------------
(* Ingestion server, storage and dependency computer *)

\* The client streams StreamEvents serves, each on its own goroutine (one here).
IngestStreams == {"i1"}

\* How many batches the streams carry together and how many compute cycles run.
MaxBatches == 2
MaxCycles == 2

\* The batches agents send. An item of a batch is written like the event it
\* decodes to; a status code is a uint32 on the wire.
IngestBatches ==
    { [connections |-> << ConnEvent("api", "web", "prod", 3, 1, 2) >>,
       httpRequests |-> << HTTPEvent("web", "web", "prod", 200, 3),
                           HTTPEvent("api", "web", "prod", 66036, 9) >>],
      [connections |-> <<>>,
       httpRequests |-> << HTTPEvent("web", "web", "prod", 503, 0) >>],
      [connections |-> << ConnEvent("web", "web", "prod", 0, 1, 1),
                          ConnEvent("", "", "prod", 9, 2, 0) >>,
       httpRequests |-> <<>>],
      [connections |-> << ConnEvent("web", "api", "prod", 2, 1, 1) >>,
       httpRequests |-> <<>>],
      [connections |-> <<>>, httpRequests |-> <<>>] }

\* protoToConnectionEvent, for the fields the model keeps.
protoToConnectionEvent(c) ==
    ConnEvent(c.src, c.dst, c.srcNs, c.latency, c.bytesSent, c.bytesRecv)

\* protoToHTTPRequestEvent, for the fields the model keeps: StatusCode is
\* uint16(r.StatusCode).
protoToHTTPRequestEvent(r) ==
    HTTPEvent(r.src, r.dst, r.dstNs, r.status % 65536, r.latency)

\* One Observe call on the aggregator's state st, from lock to unlock.
observeOne(st, ev) ==
    IF boundService(ev) = ""
    THEN [st EXCEPT !.unboundCalls = @ + 1]
    ELSE [st EXCEPT !.services = observe(@, ev, st.obsNext),
                    !.observed = Append(@, ev),
                    !.obsNext = @ + 1]

\* processBatch's fan-out loop: Observe for the events from place i on.
RECURSIVE observeAll(_, _, _)
observeAll(st, evs, i) ==
    IF i > Len(evs) THEN st ELSE observeAll(observeOne(st, evs[i]), evs, i + 1)

\* The events as storage keeps them: each with the stream that brought it.
Tagged(strm, evs) == [i \in 1..Len(evs) |-> [stream |-> strm, ev |-> evs[i]]]

\* processBatch's first half: the connection events are written (the writer
\* answers connOk) and, when written, observed. st holds the aggregator's
\* state and the storage.
processConnections(st, strm, eb, connOk) ==
    LET conns == [i \in 1..Len(eb.connections) |->
                     protoToConnectionEvent(eb.connections[i])]
    IN IF Len(eb.connections) = 0
       THEN [st |-> st, accepted |-> 0, err |-> FALSE]
       ELSE IF ~connOk
       THEN [st |-> st, accepted |-> 0, err |-> TRUE]
       ELSE [st |-> observeAll([st EXCEPT !.storeConns = @ \o Tagged(strm, conns)], conns, 1),
             accepted |-> Len(conns), err |-> FALSE]

\* A mutant of processBatch: the events of a failed request write are counted.
processBatchCountsFailed(st, strm, eb, connOk, reqOk) ==
    LET c == processConnections(st, strm, eb, connOk)
    IN [c EXCEPT !.accepted = @ + Len(eb.httpRequests),
                 !.err = (c.err \/ (Len(eb.httpRequests) > 0 /\ ~reqOk))]

\* processBatch: <<accepted, err>> with the state it leaves. A failed write
\* returns at once, before s.accepted.Add.
processBatch(st, strm, eb, connOk, reqOk) ==
    LET c == processConnections(st, strm, eb, connOk)
        reqs == [i \in 1..Len(eb.httpRequests) |->
                    protoToHTTPRequestEvent(eb.httpRequests[i])]
    IN IF c.err THEN c
       ELSE IF Len(eb.httpRequests) = 0
       THEN [c EXCEPT !.st.sAccepted = @ + c.accepted]
       ELSE IF ~reqOk
       THEN [c EXCEPT !.err = TRUE]
       ELSE [st |-> [observeAll([c.st EXCEPT !.storeReqs = @ \o Tagged(strm, reqs)], reqs, 1)
                        EXCEPT !.sAccepted = @ + c.accepted + Len(reqs)],
             accepted |-> c.accepted + Len(reqs), err |-> FALSE]

\* A mutant of afterBatch: a processBatch error ends the stream.
afterBatchAborts(processErr) == IF processErr THEN "failed" ELSE "recv"

\* Where StreamEvents goes after processBatch: back to Recv, error or not.
afterBatch(processErr) == "recv"

ServerInit ==
    /\ ipc = [strm \in IngestStreams |-> "recv"]
    /\ totalAccepted = [strm \in IngestStreams |-> 0]
    /\ ack = [strm \in IngestStreams |-> -1]
    /\ sAccepted = 0
    /\ batchesIn = <<>>
    /\ storeConns = <<>>
    /\ storeReqs = <<>>
    /\ dpc = "idle"
    /\ deps = EmptyMap
    /\ depIn = [conns |-> <<>>, reqs |-> <<>>, connsErr |-> FALSE, reqsErr |-> FALSE]
    /\ depLinks = {}
    /\ cycles = 0

\* One turn of StreamEvents' loop: Recv gives a batch, processBatch writes
\* and observes it, and its count is added to the stream's total.
StreamEventsBatch(strm) ==
    /\ UNCHANGED <<expVars, startVars, histVars, edgeVars, stopVars, cacheVars, clusterVars, nodeVars, agentVars, loaderVars, taskVars, recVars>>
    /\ ipc[strm] = "recv"
    /\ Len(batchesIn) < MaxBatches
    /\ amu = "free"
    /\ \E eb \in IngestBatches, connOk, reqOk \in BOOLEAN :
          \* an answer of the writer is drawn only for a write that can fail the batch
          /\ (Len(eb.connections) = 0 => connOk)
          /\ (Len(eb.httpRequests) = 0 \/ ~connOk => reqOk)
          /\ LET r == processBatch([services |-> services, observed |-> observed,
                                    obsNext |-> obsNext, unboundCalls |-> unboundCalls,
                                    storeConns |-> storeConns, storeReqs |-> storeReqs,
                                    sAccepted |-> sAccepted],
                                   strm, eb, connOk, reqOk)
             IN /\ services' = r.st.services
                /\ observed' = r.st.observed
                /\ obsNext' = r.st.obsNext
                /\ unboundCalls' = r.st.unboundCalls
                /\ storeConns' = r.st.storeConns
                /\ storeReqs' = r.st.storeReqs
                /\ sAccepted' = r.st.sAccepted
                /\ totalAccepted' = [totalAccepted EXCEPT ![strm] = @ + r.accepted]
                /\ ipc' = [ipc EXCEPT ![strm] = afterBatch(r.err)]
                /\ batchesIn' = Append(batchesIn,
                                       [stream |-> strm, batch |-> eb, connOk |-> connOk,
                                        reqOk |-> reqOk, accepted |-> r.accepted, err |-> r.err])
    /\ UNCHANGED <<feedPos, amu, opc, oev, oid, apc, snapshot, flushed, aggOut>>
    /\ UNCHANGED <<ack, dpc, deps, depIn, depLinks, cycles>>

\* Recv gives io.EOF: the ack carries the stream's total.
StreamEventsEOF(strm) ==
    /\ UNCHANGED <<expVars, startVars, histVars, edgeVars, aggVars, stopVars, cacheVars, clusterVars, nodeVars, agentVars, loaderVars, taskVars, recVars>>
    /\ ipc[strm] = "recv"
    /\ ack' = [ack EXCEPT ![strm] = totalAccepted[strm]]
    /\ ipc' = [ipc EXCEPT ![strm] = "closed"]
    /\ UNCHANGED <<totalAccepted, sAccepted, batchesIn, storeConns, storeReqs,
                   dpc, deps, depIn, depLinks, cycles>>

\* Recv gives another error: StreamEvents returns it, without an ack.
StreamEventsRecvError(strm) ==
    /\ UNCHANGED <<expVars, startVars, histVars, edgeVars, aggVars, stopVars, cacheVars, clusterVars, nodeVars, agentVars, loaderVars, taskVars, recVars>>
    /\ ipc[strm] = "recv"
    /\ ipc' = [ipc EXCEPT ![strm] = "failed"]
    /\ UNCHANGED <<totalAccepted, ack, sAccepted, batchesIn, storeConns, storeReqs,
                   dpc, deps, depIn, depLinks, cycles>>

\* EventQuery.Limit of compute's queries (50000 in the code).
queryLimit == 3

\* A mutant of findEvents: the query's limit is ignored.
findEventsUnlimited(store, limit) ==
    [i \in 1..Len(store) |-> store[Len(store) + 1 - i].ev]

\* What FindConnections and FindRequests give for the query: the newest
\* events of the store, newest first, no more than the limit.
findEvents(store, limit) ==
    [i \in 1..Min2(Len(store), limit) |-> store[Len(store) + 1 - i].ev]

\* The key src + "->" + dst of an edge.
depKey(src, dst) == src \o "->" \o dst

newAccumulator(src, dst) ==
    [parent |-> src, child |-> dst, callCount |-> 0, errorCount |-> 0, latencies |-> <<>>]

\* The map with an accumulator under the key.
depGetOrCreate(d, src, dst) ==
    IF depKey(src, dst) \in DOMAIN d THEN d
    ELSE MapPut(d, depKey(src, dst), newAccumulator(src, dst))

\* addConnectionEvent on the map d.
addConnectionEvent(d, ev) ==
    IF ev.src = "" \/ ev.dst = "" \/ ev.src = ev.dst THEN d
    ELSE [depGetOrCreate(d, ev.src, ev.dst) EXCEPT
             ![depKey(ev.src, ev.dst)].callCount = @ + 1,
             ![depKey(ev.src, ev.dst)].latencies =
                 IF ev.latency > 0 THEN Append(@, ev.latency) ELSE @]

\* A mutant of addHTTPRequest: an error is counted without its call.
addHTTPRequestErrorOnly(d, ev) ==
    IF ev.src = "" \/ ev.dst = "" \/ ev.src = ev.dst THEN d
    ELSE [depGetOrCreate(d, ev.src, ev.dst) EXCEPT
             ![depKey(ev.src, ev.dst)].callCount = IF ev.status >= 500 THEN @ ELSE @ + 1,
             ![depKey(ev.src, ev.dst)].errorCount = IF ev.status >= 500 THEN @ + 1 ELSE @]

\* A mutant of addHTTPRequest: a request of a service to itself is an edge.
addHTTPRequestSelf(d, ev) ==
    IF ev.src = "" \/ ev.dst = "" THEN d
    ELSE [depGetOrCreate(d, ev.src, ev.dst) EXCEPT
             ![depKey(ev.src, ev.dst)].callCount = @ + 1,
             ![depKey(ev.src, ev.dst)].errorCount = IF ev.status >= 500 THEN @ + 1 ELSE @]

\* addHTTPRequestEvent on the map d.
addHTTPRequest(d, ev) ==
    IF ev.src = "" \/ ev.dst = "" \/ ev.src = ev.dst THEN d
    ELSE [depGetOrCreate(d, ev.src, ev.dst) EXCEPT
             ![depKey(ev.src, ev.dst)].callCount = @ + 1,
             ![depKey(ev.src, ev.dst)].errorCount = IF ev.status >= 500 THEN @ + 1 ELSE @,
             ![depKey(ev.src, ev.dst)].latencies =
                 IF ev.latency > 0 THEN Append(@, ev.latency) ELSE @]

\* compute's loops over the events read, from place i on.
RECURSIVE addConnections(_, _, _)
addConnections(d, evs, i) ==
    IF i > Len(evs) THEN d ELSE addConnections(addConnectionEvent(d, evs[i]), evs, i + 1)

RECURSIVE addRequests(_, _, _)
addRequests(d, evs, i) ==
    IF i > Len(evs) THEN d ELSE addRequests(addHTTPRequest(d, evs[i]), evs, i + 1)

\* buildLinks on the map d.
linksOf(d) ==
    {[parent |-> d[key].parent, child |-> d[key].child,
      callCount |-> d[key].callCount, errorCount |-> d[key].errorCount,
      p99LatencyNs |-> computeP99(d[key].latencies)] : key \in DOMAIN d}

NothingRead == [conns |-> <<>>, reqs |-> <<>>, connsErr |-> FALSE, reqsErr |-> FALSE]

\* A mutant of computeReset: the accumulators of the last cycle are kept.
computeResetKept ==
    /\ UNCHANGED <<expVars, startVars, histVars, edgeVars, aggVars, stopVars, cacheVars, clusterVars, nodeVars, agentVars, loaderVars, taskVars, recVars>>
    /\ dpc = "idle"
    /\ cycles < MaxCycles
    /\ deps' = deps
    /\ depIn' = NothingRead
    /\ dpc' = "reset"
    /\ UNCHANGED <<ipc, totalAccepted, ack, sAccepted, batchesIn, storeConns, storeReqs,
                   depLinks, cycles>>

\* compute's start: the accumulators are reset under the lock.
computeReset ==
    /\ UNCHANGED <<expVars, startVars, histVars, edgeVars, aggVars, stopVars, cacheVars, clusterVars, nodeVars, agentVars, loaderVars, taskVars, recVars>>
    /\ dpc = "idle"
    /\ cycles < MaxCycles
    /\ deps' = EmptyMap
    /\ depIn' = NothingRead
    /\ dpc' = "reset"
    /\ UNCHANGED <<ipc, totalAccepted, ack, sAccepted, batchesIn, storeConns, storeReqs,
                   depLinks, cycles>>

\* compute reads the connection events and adds each; a read error is logged.
computeConnections ==
    /\ UNCHANGED <<expVars, startVars, histVars, edgeVars, aggVars, stopVars, cacheVars, clusterVars, nodeVars, agentVars, loaderVars, taskVars, recVars>>
    /\ dpc = "reset"
    /\ \E readOk \in BOOLEAN :
          LET conns == IF readOk THEN findEvents(storeConns, queryLimit) ELSE <<>>
          IN /\ deps' = addConnections(deps, conns, 1)
             /\ depIn' = [depIn EXCEPT !.conns = conns, !.connsErr = ~readOk]
    /\ dpc' = "conns"
    /\ UNCHANGED <<ipc, totalAccepted, ack, sAccepted, batchesIn, storeConns, storeReqs,
                   depLinks, cycles>>

\* compute reads the HTTP request events and adds each; a read error is logged.
computeRequests ==
    /\ UNCHANGED <<expVars, startVars, histVars, edgeVars, aggVars, stopVars, cacheVars, clusterVars, nodeVars, agentVars, loaderVars, taskVars, recVars>>
    /\ dpc = "conns"
    /\ \E readOk \in BOOLEAN :
          LET reqs == IF readOk THEN findEvents(storeReqs, queryLimit) ELSE <<>>
          IN /\ deps' = addRequests(deps, reqs, 1)
             /\ depIn' = [depIn EXCEPT !.reqs = reqs, !.reqsErr = ~readOk]
    /\ dpc' = "read"
    /\ UNCHANGED <<ipc, totalAccepted, ack, sAccepted, batchesIn, storeConns, storeReqs,
                   depLinks, cycles>>

\* compute's end: the links are built and, unless there are none, written.
computeWrite ==
    /\ UNCHANGED <<expVars, startVars, histVars, edgeVars, aggVars, stopVars, cacheVars, clusterVars, nodeVars, agentVars, loaderVars, taskVars, recVars>>
    /\ dpc = "read"
    /\ \E writeOk \in BOOLEAN :
          depLinks' = IF linksOf(deps) = {} \/ ~writeOk THEN depLinks ELSE linksOf(deps)
    /\ dpc' = "idle"
    /\ cycles' = cycles + 1
    /\ UNCHANGED <<ipc, totalAccepted, ack, sAccepted, batchesIn, storeConns, storeReqs,
                   deps, depIn>>

\* The server: streams deliver batches and the dependency computer runs its
\* cycles.
ServerNext ==
    \/ \E strm \in IngestStreams : StreamEventsBatch(strm)
    \/ \E strm \in IngestStreams : StreamEventsEOF(strm)
    \/ \E strm \in IngestStreams : StreamEventsRecvError(strm)
    \/ computeReset
    \/ computeConnections
    \/ computeRequests
    \/ computeWrite

---------------------------------------------------------------------------
(* The node name from the agent's event loop to the ingestion server *)

\* How many events processEvents reads from the loader in a run, and how
\* many batches clients other than this agent send.
MaxNodeEvents == 3
MaxForeign == 1

\* The values NODE_NAME has (main requires it to be non-empty).
NodeNames == {"n1", "n2"}

\* What the loader's channel carries: connection events, HTTP request events
\* and values of any other type, with whatever their Node field holds.
RawEvents == [kind : {"conn", "http", "other"}, node : {"", "zz"}]

\* Batches of other clients of the ingestion service: the items leave their
\* node empty or name one.
ForeignBatches ==
    { [from |-> "other", node |-> "n9",
       connections |-> << [node |-> ""] >>, httpRequests |-> << [node |-> "n8"] >>],
      [from |-> "other", node |-> "n9",
       connections |-> << [node |-> "n8"] >>, httpRequests |-> << [node |-> ""] >>] }

NodeStart(name) ==
    /\ nodeName = name
    /\ rawSeen = 0
    /\ nodeQueue = <<>>
    /\ wire = <<>>
    /\ decoded = <<>>

NodeInit == \E name \in NodeNames : NodeStart(name)

\* A mutant of stampNode: the event keeps the node it came with.
stampNodeKept(ev, name) == ev

\* processEvents' v.Node = nodeName.
stampNode(ev, name) == [ev EXCEPT !.node = name]

\* The loader's event with its TimestampNs: the events of one agent arrive in
\* the order of their timestamps.
timed(raw, t) == [kind |-> raw.kind, node |-> raw.node, ts |-> t]

\* One turn of processEvents' loop with an event from the loader: a
\* connection or HTTP request event is stamped and enqueued, anything else is
\* only logged.  (Enrichment does not touch the node.)
processEvents ==
    /\ UNCHANGED <<expVars, startVars, histVars, edgeVars, aggVars, stopVars, cacheVars, clusterVars, srvVars, agentVars, loaderVars, taskVars, recVars>>
    /\ rawSeen < MaxNodeEvents
    /\ rawSeen' = rawSeen + 1
    /\ \E raw \in RawEvents :
          nodeQueue' = (IF raw.kind = "other" THEN nodeQueue
                        ELSE enqueuePush(nodeQueue, stampNode(timed(raw, rawSeen + 1), nodeName)))
    /\ UNCHANGED <<nodeName, wire, decoded>>

\* connectionEventToProto and httpRequestEventToProto, for the node.
eventToProto(ev) == [node |-> ev.node, ts |-> ev.ts]

\* A mutant of itemsOf: the items of a kind are listed newest first.
itemsOfNewestFirst(evs, k) ==
    LET sel == SelectSeq(evs, LAMBDA e : e.kind = k)
    IN [i \in 1..Len(sel) |-> [node |-> sel[Len(sel) + 1 - i].node, ts |-> sel[Len(sel) + 1 - i].ts]]

\* The events of kind k among evs, in order, as items of a batch.
itemsOf(evs, k) ==
    LET sel == SelectSeq(evs, LAMBDA e : e.kind = k)
    IN [i \in 1..Len(sel) |-> eventToProto(sel[i])]

\* flush's EventBatchProto for the events it took.
buildBatch(name, evs) ==
    [from |-> "agent", node |-> name,
     connections |-> itemsOf(evs, "conn"), httpRequests |-> itemsOf(evs, "http")]

\* flush on an open stream: the batch is built from the head of the queue and
\* sent; when Send fails the events are put back.
nodeFlush ==
    /\ UNCHANGED <<expVars, startVars, histVars, edgeVars, aggVars, stopVars, cacheVars, clusterVars, srvVars, agentVars, loaderVars, taskVars, recVars>>
    /\ Len(nodeQueue) > 0
    /\ LET n == flushCount(nodeQueue)
           taken == TakeFirst(nodeQueue, n)
       IN \E sent \in BOOLEAN :
             IF sent
             THEN /\ wire' = Append(wire, buildBatch(nodeName, taken))
                  /\ nodeQueue' = DropFirst(nodeQueue, n)
             ELSE /\ wire' = wire
                  /\ nodeQueue' = putBack(taken, DropFirst(nodeQueue, n))
    /\ UNCHANGED <<nodeName, rawSeen, decoded>>

\* Another client sends a batch.
foreignSend ==
    /\ UNCHANGED <<expVars, startVars, histVars, edgeVars, aggVars, stopVars, cacheVars, clusterVars, srvVars, agentVars, loaderVars, taskVars, recVars>>
    /\ Cardinality({i \in 1..Len(wire) : wire[i].from = "other"})
          + Cardinality({i \in 1..Len(decoded) : decoded[i].from = "other"}) < MaxForeign
    /\ \E b \in ForeignBatches : wire' = Append(wire, b)
    /\ UNCHANGED <<nodeName, rawSeen, nodeQueue, decoded>>

\* A mutant of protoNode: the batch's node always wins.
protoNodeOfBatch(itemNode, batchNode) == batchNode

\* The Node protoToConnectionEvent and protoToHTTPRequestEvent give the
\* event: the item's, or the batch's when the item has none.
protoNode(itemNode, batchNode) == IF itemNode = "" THEN batchNode ELSE itemNode

\* The events processBatch decodes from the items of one kind.
decodeItems(b, items) ==
    [i \in 1..Len(items) |->
        [from |-> b.from, node |-> protoNode(items[i].node, b.node),
         itemNode |-> items[i].node, batchNode |-> b.node]]

\* StreamEvents receives the next batch and processBatch decodes its items.
nodeIngest ==
    /\ UNCHANGED <<expVars, startVars, histVars, edgeVars, aggVars, stopVars, cacheVars, clusterVars, srvVars, agentVars, loaderVars, taskVars, recVars>>
    /\ Len(wire) > 0
    /\ decoded' = decoded \o decodeItems(wire[1], wire[1].connections)
                           \o decodeItems(wire[1], wire[1].httpRequests)
    /\ wire' = Tail(wire)
    /\ UNCHANGED <<nodeName, rawSeen, nodeQueue>>

NodeNext ==
    \/ processEvents
    \/ nodeFlush
    \/ foreignSend
    \/ nodeIngest

---------------------------------------------------------------------------
(* The agent's main and its health server *)

\* The subsystems main starts, each in its own goroutine.
Subsystems == {"loader", "cache", "exporter"}

NoProbe == [path |-> "none", code |-> 0, allUp |-> FALSE]

\* main has started the health server with a healthState that is not ready.
AgentInit ==
    /\ mpc = "health"
    /\ ready = FALSE
    /\ sub = [x \in Subsystems |-> "off"]
    /\ lastProbe = NoProbe
    /\ cpc = "sync"
    /\ epc = "select"

\* main's three go statements: loader.Start, k8sCache.Start and exp.Start
\* begin to run.
mainLaunch ==
    /\ UNCHANGED <<expVars, startVars, histVars, edgeVars, aggVars, stopVars, cacheVars, clusterVars, srvVars, nodeVars, loaderVars, taskVars, recVars>>
    /\ mpc = "health"
    /\ mpc' = "launched"
    /\ sub' = [x \in Subsystems |-> "starting"]
    /\ UNCHANGED <<ready, lastProbe>>

\* main's healthReady.setReady(true), the statement after the go statements.
mainSetReady ==
    /\ UNCHANGED <<expVars, startVars, histVars, edgeVars, aggVars, stopVars, cacheVars, clusterVars, srvVars, nodeVars, loaderVars, taskVars, recVars>>
    /\ mpc = "launched"
    /\ mpc' = "ready"
    /\ ready' = TRUE
    /\ UNCHANGED <<sub, lastProbe>>

\* A subsystem gets up: the loader has loaded and attached, the cache has
\* completed its initial sync, the exporter has connected.
subsystemUp(x) ==
    /\ UNCHANGED <<expVars, startVars, histVars, edgeVars, aggVars, stopVars, cacheVars, clusterVars, srvVars, nodeVars, loaderVars, taskVars, recVars>>
    /\ sub[x] = "starting"
    /\ sub' = [sub EXCEPT ![x] = "up"]
    /\ UNCHANGED <<mpc, ready, lastProbe>>

\* A subsystem's Start returns an error (the loader cannot load, the cache
\* cannot sync) or, for the exporter, a dial fails.
subsystemFails(x) ==
    /\ UNCHANGED <<expVars, startVars, histVars, edgeVars, aggVars, stopVars, cacheVars, clusterVars, srvVars, nodeVars, loaderVars, taskVars, recVars>>
    /\ sub[x] = "starting"
    /\ sub' = [sub EXCEPT ![x] = "failed"]
    /\ UNCHANGED <<mpc, ready, lastProbe>>

\* The status /readyz answers with.
readyzCode(isReady) == IF isReady THEN 200 ELSE 503

\* The health server answers a GET /readyz.
readyz ==
    /\ UNCHANGED <<expVars, startVars, histVars, edgeVars, aggVars, stopVars, cacheVars, clusterVars, srvVars, nodeVars, loaderVars, taskVars, recVars>>
    /\ lastProbe' = [path |-> "readyz", code |-> readyzCode(ready),
                     allUp |-> (\A x \in Subsystems : sub[x] = "up")]
    /\ UNCHANGED <<mpc, ready, sub>>

\* The health server answers a GET /healthz.
healthz ==
    /\ UNCHANGED <<expVars, startVars, histVars, edgeVars, aggVars, stopVars, cacheVars, clusterVars, srvVars, nodeVars, loaderVars, taskVars, recVars>>
    /\ lastProbe' = [path |-> "healthz", code |-> 200,
                     allUp |-> (\A x \in Subsystems : sub[x] = "up")]
    /\ UNCHANGED <<mpc, ready, sub>>

AgentNext ==
    \/ mainLaunch
    \/ mainSetReady
    \/ \E x \in Subsystems : subsystemUp(x)
    \/ \E x \in Subsystems : subsystemFails(x)
    \/ readyz
    \/ healthz

---------------------------------------------------------------------------
(* Probe loader *)

\* The two decode loops and their readers.
Readers == {"conn", "http"}

NoSetup == [statOk |-> TRUE, objects |-> <<>>]

\* NewLoader: nothing is loaded, the event channel is open and empty.
LoaderInit ==
    /\ lpcs = "init"
    /\ setup = NoSetup
    /\ collections = 0
    /\ links = 0
    /\ perf = [r \in Readers |-> "nil"]
    /\ lctx = FALSE
    /\ rpc = [r \in Readers |-> "off"]
    /\ evch = [closed |-> FALSE, len |-> 0]
    /\ reads = 0
    /\ releaseLog = <<>>
    /\ startResult = "none"
    /\ sawEOF = FALSE

\* How many object files the path holds at most, and how many records the
\* readers return in a run.
MaxObjects == 2
MaxReads == 2

\* The object files Start can find: whether the spec loads, whether the
\* collection can be created, which event maps it has, whether a reader opens
\* on them, how many of its programs attach and whether an attach fails.
ProbeObjects ==
    { [specOk |-> TRUE, collOk |-> TRUE, maps |-> {"conn"}, readerOk |-> TRUE,
       attached |-> 2, attachFailed |-> FALSE],
      [specOk |-> TRUE, collOk |-> TRUE, maps |-> {"http"}, readerOk |-> TRUE,
       attached |-> 0, attachFailed |-> TRUE],
      [specOk |-> TRUE, collOk |-> TRUE, maps |-> {"conn", "http"}, readerOk |-> FALSE,
       attached |-> 1, attachFailed |-> TRUE],
      [specOk |-> TRUE, collOk |-> TRUE, maps |-> {}, readerOk |-> TRUE,
       attached |-> 1, attachFailed |-> FALSE],
      [specOk |-> TRUE, collOk |-> FALSE, maps |-> {"conn"}, readerOk |-> TRUE,
       attached |-> 0, attachFailed |-> FALSE],
      [specOk |-> FALSE, collOk |-> FALSE, maps |-> {}, readerOk |-> FALSE,
       attached |-> 0, attachFailed |-> FALSE] }

\* The object sequences of up to MaxObjects files, in the order Start's range
\* over the specs visits them.
ObjectLists == UNION {[1..n -> ProbeObjects] : n \in 0..MaxObjects}

RECURSIVE SumAttached(_, _)
SumAttached(objs, i) ==
    IF i > Len(objs) THEN 0 ELSE objs[i].attached + SumAttached(objs, i + 1)

\* What Start's loading leaves in the Loader: specs is len(specs) of
\* loadSpecs, created the objects whose collection was created.
loadAll(statOk, objs) ==
    LET loaded == IF statOk THEN SelectSeq(objs, LAMBDA o : o.specOk) ELSE <<>>
        created == SelectSeq(loaded, LAMBDA o : o.collOk)
    IN [specs |-> Len(loaded),
        collections |-> Len(created),
        links |-> SumAttached(created, 1),
        attachFailed |-> (\E i \in 1..Len(created) : created[i].attachFailed),
        perf |-> [r \in Readers |->
                    IF \E i \in 1..Len(created) : r \in created[i].maps /\ created[i].readerOk
                    THEN "open" ELSE "nil"]]

\* A mutant of startFails: a failed attach makes Start fail.
startFailsOnAttach(f) ==
    f.specs = 0 \/ (\A r \in Readers : f.perf[r] = "nil") \/ f.attachFailed

\* Whether Start returns an error after loading: no spec was loaded, or
\* neither reader was opened.
startFails(f) == f.specs = 0 \/ (\A r \in Readers : f.perf[r] = "nil")

\* Loader.Start up to its wait for the context: the objects are loaded, the
\* programs attached, the readers opened and the decode loops started, or an
\* error is returned.
loaderStart ==
    /\ UNCHANGED <<expVars, startVars, histVars, edgeVars, aggVars, stopVars, cacheVars, clusterVars, srvVars, nodeVars, agentVars, taskVars, recVars>>
    /\ lpcs = "init"
    /\ \E statOk \in BOOLEAN, objs \in ObjectLists :
          LET f == loadAll(statOk, objs)
          IN /\ setup' = [statOk |-> statOk, objects |-> objs]
             /\ collections' = f.collections
             /\ links' = f.links
             /\ perf' = f.perf
             /\ IF startFails(f)
                THEN /\ lpcs' = "returned"
                     /\ startResult' = "fatal"
                     /\ rpc' = rpc
                ELSE /\ lpcs' = "running"
                     /\ startResult' = startResult
                     /\ rpc' = [r \in Readers |-> IF f.perf[r] = "open" THEN "check" ELSE "off"]
    /\ UNCHANGED <<lctx, evch, reads, releaseLog, sawEOF>>

\* The context given to Start is cancelled.
loaderCancel ==
    /\ UNCHANGED <<expVars, startVars, histVars, edgeVars, aggVars, stopVars, cacheVars, clusterVars, srvVars, nodeVars, agentVars, taskVars, recVars>>
    /\ ~lctx
    /\ lctx' = TRUE
    /\ UNCHANGED <<lpcs, setup, collections, links, perf, rpc, evch, reads, releaseLog,
                   startResult, sawEOF>>

\* Start's <-ctx.Done() returns and it calls Close.
loaderWake ==
    /\ UNCHANGED <<expVars, startVars, histVars, edgeVars, aggVars, stopVars, cacheVars, clusterVars, srvVars, nodeVars, agentVars, taskVars, recVars>>
    /\ lpcs = "running"
    /\ lctx
    /\ lpcs' = "closing"
    /\ UNCHANGED <<setup, collections, links, perf, lctx, rpc, evch, reads, releaseLog,
                   startResult, sawEOF>>

\* A mutant of closeOrder: the event channel is closed first.
closeOrderChannelFirst == <<"channel", "links", "readers", "collections">>

\* The order in which Close releases.
closeOrder == <<"links", "readers", "collections", "channel">>

\* Close's next release; after the last one Close returns and Start returns
\* ctx.Err().
closeRelease ==
    /\ UNCHANGED <<expVars, startVars, histVars, edgeVars, aggVars, stopVars, cacheVars, clusterVars, srvVars, nodeVars, agentVars, taskVars, recVars>>
    /\ lpcs = "closing"
    /\ LET what == closeOrder[Len(releaseLog) + 1]
       IN /\ releaseLog' = Append(releaseLog, what)
          /\ links' = (IF what = "links" THEN 0 ELSE links)
          /\ perf' = (IF what = "readers"
                      THEN [r \in Readers |-> IF perf[r] = "open" THEN "closed" ELSE perf[r]]
                      ELSE perf)
          /\ collections' = (IF what = "collections" THEN 0 ELSE collections)
          /\ evch' = (IF what = "channel" THEN [evch EXCEPT !.closed = TRUE] ELSE evch)
    /\ lpcs' = (IF Len(releaseLog) + 1 = Len(closeOrder) THEN "returned" ELSE "closing")
    /\ startResult' = (IF Len(releaseLog) + 1 = Len(closeOrder) THEN "ctx" ELSE startResult)
    /\ UNCHANGED <<setup, lctx, rpc, reads, sawEOF>>

\* The head of a decode loop: a cancelled context ends it, otherwise Read is
\* called.
loopCheck(r) ==
    /\ UNCHANGED <<expVars, startVars, histVars, edgeVars, aggVars, stopVars, cacheVars, clusterVars, srvVars, nodeVars, agentVars, taskVars, recVars>>
    /\ rpc[r] = "check"
    /\ rpc' = [rpc EXCEPT ![r] = IF lctx THEN "done" ELSE "read"]
    /\ UNCHANGED <<lpcs, setup, collections, links, perf, lctx, evch, reads, releaseLog,
                   startResult, sawEOF>>

\* The reader's Read returns: on a closed reader with an error that ends the
\* loop; otherwise with a record, which is skipped (unknown event, lost
\* samples, too small), decoded into an event, or an error that ends the loop.
loopRead(r) ==
    /\ UNCHANGED <<expVars, startVars, histVars, edgeVars, aggVars, stopVars, cacheVars, clusterVars, srvVars, nodeVars, agentVars, taskVars, recVars>>
    /\ rpc[r] = "read"
    /\ IF perf[r] = "closed"
       THEN /\ rpc' = [rpc EXCEPT ![r] = "done"]
            /\ reads' = reads
       ELSE /\ reads < MaxReads
            /\ reads' = reads + 1
            /\ \E outcome \in {"check", "holding", "done"} :
                  rpc' = [rpc EXCEPT ![r] = outcome]
    /\ UNCHANGED <<lpcs, setup, collections, links, perf, lctx, evch, releaseLog,
                   startResult, sawEOF>>

\* The loop's select with a decoded event, send case: the event goes into the
\* channel; a send on the closed channel panics.
loopSend(r) ==
    /\ UNCHANGED <<expVars, startVars, histVars, edgeVars, aggVars, stopVars, cacheVars, clusterVars, srvVars, nodeVars, agentVars, taskVars, recVars>>
    /\ rpc[r] = "holding"
    /\ IF evch.closed
       THEN /\ rpc' = [rpc EXCEPT ![r] = "panicked"]
            /\ evch' = evch
       ELSE /\ rpc' = [rpc EXCEPT ![r] = "check"]
            /\ evch' = [evch EXCEPT !.len = @ + 1]
    /\ UNCHANGED <<lpcs, setup, collections, links, perf, lctx, reads, releaseLog,
                   startResult, sawEOF>>

\* The loop's select with a decoded event, ctx.Done() case: the loop ends.
loopQuit(r) ==
    /\ UNCHANGED <<expVars, startVars, histVars, edgeVars, aggVars, stopVars, cacheVars, clusterVars, srvVars, nodeVars, agentVars, taskVars, recVars>>
    /\ rpc[r] = "holding"
    /\ lctx
    /\ rpc' = [rpc EXCEPT ![r] = "done"]
    /\ UNCHANGED <<lpcs, setup, collections, links, perf, lctx, evch, reads, releaseLog,
                   startResult, sawEOF>>

\* The consumer of Events() receives: an event, or the end of the stream once
\* the channel is closed and empty.
eventsReceive ==
    /\ UNCHANGED <<expVars, startVars, histVars, edgeVars, aggVars, stopVars, cacheVars, clusterVars, srvVars, nodeVars, agentVars, taskVars, recVars>>
    /\ ~sawEOF
    /\ evch.len > 0 \/ evch.closed
    /\ IF evch.len > 0
       THEN /\ evch' = [evch EXCEPT !.len = @ - 1]
            /\ sawEOF' = sawEOF
       ELSE /\ evch' = evch
            /\ sawEOF' = TRUE
    /\ UNCHANGED <<lpcs, setup, collections, links, perf, lctx, rpc, reads, releaseLog,
                   startResult>>

LoaderNext ==
    \/ loaderStart
    \/ loaderCancel
    \/ loaderWake
    \/ closeRelease
    \/ \E r \in Readers : loopCheck(r)
    \/ \E r \in Readers : loopRead(r)
    \/ \E r \in Readers : loopSend(r)
    \/ \E r \in Readers : loopQuit(r)
    \/ eventsReceive

(* The connection record and its decoding
   (src/internal/agent/ebpf/loader.go:23-36, 275-320) *)

\* How many records readConnEvents reads in a run.
MaxRecords == 3

\* The fields of ConnEvent, in order, with the size of each and the alignment
\* of its type on a 64-bit target.
ConnEventFields ==
    << [name |-> "TimestampNs", size |-> 8, align |-> 8],
       [name |-> "SrcIP", size |-> 4, align |-> 4],
       [name |-> "DstIP", size |-> 4, align |-> 4],
       [name |-> "SrcPort", size |-> 2, align |-> 2],
       [name |-> "DstPort", size |-> 2, align |-> 2],
       [name |-> "BytesSent", size |-> 8, align |-> 8],
       [name |-> "BytesRecv", size |-> 8, align |-> 8],
       [name |-> "DurationNs", size |-> 8, align |-> 8],
       [name |-> "Retransmits", size |-> 4, align |-> 4],
       [name |-> "Protocol", size |-> 1, align |-> 1],
       [name |-> "Pad", size |-> 3, align |-> 1] >>

\* The builds: a uint64 is aligned to 8 bytes on amd64 and arm64, to 4 on
\* 386 and arm.
WordAligns == {4, 8}

alignUp(n, a) == ((n + a - 1) \div a) * a

\* The alignment the compiler gives a field.
fieldAlign(f, w) == Min2(f.align, w)

\* The offset behind field i of the Go struct: every field starts at the next
\* multiple of its alignment.
RECURSIVE structEnd(_, _, _)
structEnd(fields, i, w) ==
    IF i = 0 THEN 0
    ELSE alignUp(structEnd(fields, i - 1, w), fieldAlign(fields[i], w)) + fields[i].size

\* The alignment of the struct: the largest of its fields'.
RECURSIVE structAlign(_, _, _)
structAlign(fields, i, w) ==
    IF i = 0 THEN 1
    ELSE IF fieldAlign(fields[i], w) > structAlign(fields, i - 1, w)
         THEN fieldAlign(fields[i], w) ELSE structAlign(fields, i - 1, w)

\* unsafe.Sizeof of the struct.
sizeOf(fields, w) ==
    alignUp(structEnd(fields, Len(fields), w), structAlign(fields, Len(fields), w))

\* readConnEvents' expectedSize.
expectedSize(w) == sizeOf(ConnEventFields, w)

\* The size of the packed record the probe emits: the sizes of the fields of
\* the wire layout, one after the other.
RECURSIVE packedSize(_)
packedSize(fields) == IF fields = <<>> THEN 0 ELSE fields[1].size + packedSize(Tail(fields))

\* The byte behind the last one readConnEvents' decoding reads (raw[48]).
decodeEnd == 49

\* The lengths of the raw samples the reader returns: the probe's record, and
\* records of other lengths.
RecordLengths == {0, decodeEnd - 1, decodeEnd, packedSize(ConnEventFields),
                  packedSize(ConnEventFields) + 4, packedSize(ConnEventFields) + 8}

RecordStart(w) ==
    /\ wordAlign = w
    /\ connDecoded = <<>>
    /\ connSkipped = <<>>

RecordInit == \E w \in WordAligns : RecordStart(w)

\* One turn of readConnEvents' loop with a record from the reader: a sample
\* shorter than expectedSize is logged and skipped, any other is decoded.
readConnRecord ==
    /\ UNCHANGED <<expVars, startVars, histVars, edgeVars, aggVars, stopVars, cacheVars, clusterVars, srvVars, nodeVars, agentVars, loaderVars, taskVars>>
    /\ Len(connDecoded) + Len(connSkipped) < MaxRecords
    /\ \E n \in RecordLengths :
          IF n < expectedSize(wordAlign)
          THEN /\ connSkipped' = Append(connSkipped, n)
               /\ UNCHANGED connDecoded
          ELSE /\ connDecoded' = Append(connDecoded, n)
               /\ UNCHANGED connSkipped
    /\ UNCHANGED wordAlign

RecordNext == readConnRecord

----------------------------------------------------------------------------

\* Each specification starts its own subsystem in every initial state it has
\* and the others in one.
Init == ExporterInit /\ StartInit /\ HistInit /\ EdgeStart("rising") /\ AggInit /\ StopInit /\ CacheInit /\ ServerInit /\ NodeStart("n1") /\ AgentInit /\ LoaderInit /\ RecordStart(8)

SpecExporter == Init /\ [][ExporterNext]_vars

SpecStart == Init /\ [][StartNext]_vars

SpecHist == Init /\ [][HistNext]_vars

InitEdge == ExporterInit /\ StartInit /\ HistInit /\ EdgeInit /\ AggInit /\ StopInit /\ CacheInit /\ ServerInit /\ NodeStart("n1") /\ AgentInit /\ LoaderInit /\ RecordStart(8)

SpecEdge == InitEdge /\ [][EdgeNext]_vars

SpecAggregator == Init /\ [][AggNext]_vars

SpecCache == Init /\ [][CacheNext]_vars

SpecAggFeed == Init /\ [][AggFeedNext]_vars

SpecServer == Init /\ [][ServerNext]_vars

InitNode == ExporterInit /\ StartInit /\ HistInit /\ EdgeStart("rising") /\ AggInit /\ StopInit /\ CacheInit /\ ServerInit /\ NodeInit /\ AgentInit /\ LoaderInit /\ RecordStart(8)

SpecNode == InitNode /\ [][NodeNext]_vars

SpecAgent == Init /\ [][AgentNext]_vars

SpecLoader == Init /\ [][LoaderNext]_vars

---------------------------------------------------------------------------
(* Export client: properties *)

\* The events enqueued so far.
Enqueued == 1..(nextId - 1)

\* <<a, a+1, ..., b>>, empty when b < a.
Interval(a, b) == [i \in 1..(IF b >= a THEN b - a + 1 ELSE 0) |-> a + i - 1]

\* s is the tail end of t.
IsSuffix(s, t) ==
    /\ Len(s) <= Len(t)
    /\ s = DropFirst(t, Len(t) - Len(s))

\* s is the front of t.
IsPrefix(s, t) ==
    /\ Len(s) <= Len(t)
    /\ s = TakeFirst(t, Len(s))

\* A step in which flush ends after a failed stream.Send.
SendFailStep == fpc = "taken" /\ sendResult = "none" /\ sendResult' = "fail"

\* C1: in every reachable state of the Exporter, under any interleaving of
\* Enqueue, flush taking a batch out and a failed Send putting it back, the
\* queue holds at most queueLimit events.
C1_QueueWithinBound == Len(queue) <= queueLimit

\* C1, its case: the queue is full after a put-back that had to cut it and
\* after Enqueue had to drop.
C1_Witness ==
    /\ Len(queue) = queueLimit
    /\ truncated # {}
    /\ Len(dropped) > 0

\* C2: while no flush has taken events out, k > queueLimit enqueues on the
\* empty queue leave exactly k - queueLimit events dropped, every dropped
\* event older than every retained one, and the queue holding the queueLimit
\* most recently enqueued events in enqueue order.
C2_DropOldestKeepNewest ==
    (takes = 0 /\ nextId - 1 > queueLimit) =>
        /\ Len(dropped) = (nextId - 1) - queueLimit
        /\ dropped = Interval(1, (nextId - 1) - queueLimit)
        /\ queue = Interval(nextId - queueLimit, nextId - 1)
        /\ \A i \in 1..Len(dropped) : \A j \in 1..Len(queue) : dropped[i] < queue[j]

\* C2, its case: two events more than the bound were enqueued and no flush ran.
C2_Witness ==
    /\ takes = 0
    /\ nextId - 1 = queueLimit + 2
    /\ Len(dropped) = 2

\* C3 as stated: after a failed Send the queue starts with the whole unsent
\* batch in its order, followed by events that were queued meanwhile (the
\* newest of them cut off when the bound is exceeded), and flush returns the
\* error.
C3_BatchKeptAtHead ==
    [][SendFailStep =>
          /\ IsPrefix(batch, queue')
          /\ Range(batch) \subseteq Range(queue')
          /\ IsPrefix(DropFirst(queue', Min2(Len(batch), Len(queue'))), queue)
          /\ flushErr' = "err"]_vars

\* C3 amended: after a failed Send the queue is batch ++ queue (the batch
\* ahead of the events enqueued meanwhile, each in its order) cut to its last
\* queueLimit events: what is cut off to fit is the oldest end, the unsent
\* batch's first events; nothing is cut when the bound is not exceeded; and
\* flush returns the error.
C3_PutBackCutsOldest ==
    [][SendFailStep =>
          /\ IsSuffix(queue', batch \o queue)
          /\ Len(queue') = Min2(queueLimit, Len(batch) + Len(queue))
          /\ (Len(batch) + Len(queue) <= queueLimit => queue' = batch \o queue)
          /\ IsSuffix(queue, queue')
          /\ flushErr' = "err"]_vars

\* C3, its case: a Send failed and the put-back had to cut events off.
C3_Witness ==
    /\ sendResult = "fail"
    /\ flushErr = "err"
    /\ fpc = "idle"
    /\ truncated # {}

\* C4: an event leaves the export queue only by the overflow drop policy or
\* by being handed to a stream Send; the events a flush without an open
\* stream took out are still held afterwards.
C4_EventsLeaveOnlyByDropOrSend ==
    \A e \in Enqueued :
        \/ e \in Range(queue)
        \/ e \in Range(batch)
        \/ e \in Range(dropped)
        \/ e \in truncated
        \/ e \in handed

---------------------------------------------------------------------------
(* Latency histogram: properties *)

\* The quantiles in (0, 1], as hundredths.
Quantiles == 1..QuantileDen

\* The sample values observed since the last flush.
Observed == {x \in SampleValues : hSamples[x] > 0}

MinOf(S) == CHOOSE x \in S : \A y \in S : x <= y
MaxOf(S) == CHOOSE x \in S : \A y \in S : y <= x

\* The percentile of the live histogram for quantile q / 100, times PScale.
hPercentile(q) ==
    histogramPercentile(buckets, hsm.latencyCounts,
                        totalHistogramCount(hsm.latencyCounts), q)

\* C9 as stated: for a histogram of n > 0 samples and any quantile in (0, 1],
\* histogramPercentile returns a value in [min(samples), 2 * max(samples)].
C9_WithinMinAndTwiceMax ==
    Observed # {} =>
        \A q \in Quantiles :
            /\ MinOf(Observed) * PScale <= hPercentile(q)
            /\ hPercentile(q) <= 2 * MaxOf(Observed) * PScale

\* C9 amended: histogramPercentile returns a value within the boundaries of a
\* bucket that holds at least one sample, so a value from the lower boundary
\* of min(samples)'s bucket to the upper boundary of max(samples)'s bucket
\* (twice the last boundary for the +Inf bucket).
C9_WithinOccupiedBucket ==
    Observed # {} =>
        \A q \in Quantiles :
            /\ \E i \in 1..(Len(buckets) + 1) :
                  /\ hsm.latencyCounts[i] > 0
                  /\ lowerOf(buckets, i) * PScale <= hPercentile(q)
                  /\ hPercentile(q) <= upperOf(buckets, i) * PScale
            /\ lowerOf(buckets, bucketOf(MinOf(Observed))) * PScale <= hPercentile(q)
            /\ hPercentile(q) <= upperOf(buckets, bucketOf(MaxOf(Observed))) * PScale

\* C9, its case: a histogram with samples in two buckets whose percentile for
\* some quantile is above twice the largest sample and for another below the
\* smallest.
C9_Witness ==
    /\ Observed # {}
    /\ Cardinality({bucketOf(x) : x \in Observed}) >= 2
    /\ \E q \in Quantiles : hPercentile(q) > 2 * MaxOf(Observed) * PScale
    /\ \E q \in Quantiles : hPercentile(q) < MinOf(Observed) * PScale

\* C10: for a fixed non-empty histogram histogramPercentile is monotonic in
\* the quantile (each hundredth's percentile is at most the next one's, and
\* so q1 <= q2 gives percentile(q1) <= percentile(q2)), and every flush emits
\* P50 <= P95 <= P99.
C10_MonotonicInQuantile ==
    /\ Observed # {} =>
          \A q \in Quantiles :
              q + 1 \in Quantiles => hPercentile(q) <= hPercentile(q + 1)
    /\ hOut # <<>> => (hOut[1] <= hOut[2] /\ hOut[2] <= hOut[3])

\* C10, its case: a flush emitted three different percentiles.
C10_Witness ==
    /\ hOut # <<>>
    /\ hOut[1] < hOut[2]
    /\ hOut[2] < hOut[3]

---------------------------------------------------------------------------
(* Dependency computer: properties of the P99 *)

\* ceil(0.99 * n) - 1 clamped to [0, n - 1], from 0.
CeilP99Index(n) ==
    LET idx == ((99 * n + 99) \div 100) - 1
    IN IF idx < 0 THEN 0 ELSE IF idx >= n THEN n - 1 ELSE idx

\* C8: for every number n >= 1 of latency samples on an edge the link's P99
\* is the element at index ceil(0.99 * n) - 1 (clamped to [0, n - 1]) of the
\* samples sorted ascending, and 0 for n = 0 (99 for the samples 1..100).
C8_P99AtCeilIndex ==
    linkP99 # -1 =>
        IF Len(accLatencies) = 0
        THEN linkP99 = 0
        ELSE linkP99 = SortAsc(accLatencies)[CeilP99Index(Len(accLatencies)) + 1]

---------------------------------------------------------------------------
(* C5 *)

\* The observations that the serviceMetrics of map m count.
CountedIn(m) == UNION {m[svc].obs : svc \in DOMAIN m}

\* The snapshots among the flushed ones that hold observation id.
SnapshotsOf(id) == {i \in 1..Len(flushed) : id \in CountedIn(flushed[i])}

\* The serviceMetrics of map m that hold observation id.
HoldersIn(m, id) == {svc \in DOMAIN m : id \in m[svc].obs}

\* The observations of calls that took the lock and returned.
Returned == {id \in 1..(obsNext - 1) : \A t \in Streams : oid[t] # id}

\* Every serviceMetrics counts each of its observations once.
CountsMatch(m) == \A svc \in DOMAIN m : m[svc].callCount = Cardinality(m[svc].obs)

\* C5: under every interleaving of the streams' Observe calls with flush, an
\* observation with a bound service whose call has returned is counted once:
\* either in the live map, waiting for the next swap, or in exactly one
\* flushed snapshot, never in both and never in neither; its call count is one
\* per observation; and the step that swaps leaves the live map empty.
C5_CountedOnceAndSwapEmpties ==
    /\ [](\A id \in Returned :
            /\ Cardinality(SnapshotsOf(id)) + Cardinality(HoldersIn(services, id)) = 1
            /\ \A i \in SnapshotsOf(id) : Cardinality(HoldersIn(flushed[i], id)) = 1)
    /\ [](CountsMatch(services) /\ \A i \in 1..Len(flushed) : CountsMatch(flushed[i]))
    /\ [][(apc = "locked" /\ apc' = "swapped") => DOMAIN services' = {}]_vars

\* C5 witness: flush has swapped and is computing on a snapshot that counts
\* an observation, the live map already counts a later one, and a stream
\* holds the lock inside a third Observe call.
C5_Witness ==
    /\ apc = "swapped"
    /\ CountedIn(snapshot) # {}
    /\ CountedIn(services) # {}
    /\ \E t \in Streams : opc[t] = "locked"

---------------------------------------------------------------------------
(* C6, C7 *)

\* What Lookup(ip) returns in this state: the row's value, NilEndpoint for nil.
LookupValue(ip) == IF ip \in DOMAIN endpoints THEN heap[endpoints[ip]] ELSE NilEndpoint

\* C6: once the add handler of pod p1 with IP 10.0.0.5 and the add handler of
\* the EndpointSlice of frontend-svc that targets p1 at 10.0.0.5 have both
\* completed, and no other handler has run, Lookup("10.0.0.5") returns an
\* endpoint whose service is frontend-svc.
C6_ServiceAfterBothHandlers ==
    (/\ done = {[op |-> "podAdd", id |-> "p1@5"], [op |-> "sliceUpdate", id |-> "s1"]}
     /\ ppc = "idle")
    => (/\ "10.0.0.5" \in DOMAIN endpoints
        /\ LookupValue("10.0.0.5").service = "frontend-svc")

\* What every later Lookup returns, by address.
TableView == [ip \in LookupIPs |-> LookupValue(ip)]

\* The endpoints callers hold.
HeldPointers == {held[i] : i \in 1..Len(held)} \ {0}

\* C7: a caller's write to an endpoint it got from Lookup changes no value
\* that a later Lookup returns, and a handler's change of the table (pod add,
\* update or delete, EndpointSlice add or delete) changes no endpoint a caller
\* already holds.
C7_LookupReturnsCopy ==
    /\ [][lastOp' = "caller" => TableView' = TableView]_vars
    /\ [][lastOp' \in {"pod", "slice"} => \A a \in HeldPointers : heap'[a] = heap[a]]_vars

\* C7 witness: a caller has changed an endpoint it holds while the table row
\* of that address still has the service the handlers gave it, and another
\* held endpoint has the value from before a handler changed its row.
C7_Witness ==
    \E a, b \in HeldPointers :
        /\ heap[a].service = "changed"
        /\ heap[b].service # "changed"
        /\ heap[a].ip = heap[b].ip
        /\ LookupValue(heap[b].ip) # NilEndpoint
        /\ LookupValue(heap[b].ip).service \notin {"changed", heap[b].service}

---------------------------------------------------------------------------
(* C11 *)

\* The feed's ten requests have all been observed, one flush has taken them
\* together and has written its points.
FeedFlushedWhole ==
    /\ feedPos = Len(FeedEvents)
    /\ Len(flushed) >= 1
    /\ "api" \in DOMAIN flushed[Len(flushed)]
    /\ flushed[Len(flushed)]["api"].callCount = Len(FeedEvents)
    /\ apc = "idle"

\* The value of the latency point of service api at the quantile, as value * PScale.
FeedLatencyPoint(q) ==
    (CHOOSE pt \in aggOut.latency : pt.service = "api" /\ pt.quantile = q).value

FeedCallPoint == (CHOOSE pt \in aggOut.call_rate : pt.service = "api").value

FeedErrorPoint == (CHOOSE pt \in aggOut.error_rate : pt.service = "api").value

\* C11 as stated: after the ten latencies and the flush, P50 is in
\* [10 ms, 25 ms], P95 in [500 ms, 1 s], P99 in [1 s, 5 s], the call-rate point
\* is 10 and the error-rate point is 0.
C11_PercentilesAsStated ==
    FeedFlushedWhole =>
        /\ 20 * PScale <= FeedLatencyPoint(50) /\ FeedLatencyPoint(50) <= 50 * PScale
        /\ 1000 * PScale <= FeedLatencyPoint(95) /\ FeedLatencyPoint(95) <= 2000 * PScale
        /\ 2000 * PScale <= FeedLatencyPoint(99) /\ FeedLatencyPoint(99) <= 10000 * PScale
        /\ FeedCallPoint = 10
        /\ FeedErrorPoint[1] = 0

\* C11 amended: after the ten latencies and the flush, P50 is 50 ms (the upper
\* boundary of the bucket of the fifth sample, so in [25 ms, 50 ms]), P95 is
\* 3.75 s and P99 is 4.75 s (both in [2.5 s, 5 s], the bucket of the tenth
\* sample), the call-rate point is 10 and the error-rate point is 0.
C11_PercentilesOfTheFeed ==
    FeedFlushedWhole =>
        /\ FeedLatencyPoint(50) = 100 * PScale
        /\ FeedLatencyPoint(95) = 7500 * PScale
        /\ FeedLatencyPoint(99) = 9500 * PScale
        /\ FeedCallPoint = 10
        /\ FeedErrorPoint = <<0, 10>>

\* C11 witness: the ten requests were observed and flushed as one snapshot,
\* whose three latency points were written.
C11_Witness ==
    /\ FeedFlushedWhole
    /\ flushed[Len(flushed)]["api"].obs = 1..Len(FeedEvents)
    /\ Cardinality(aggOut.latency) = 3

---------------------------------------------------------------------------
(* C12 *)

\* The latency samples a serviceMetrics was given: its observations whose
\* event has a duration or latency above 0.
SamplesOf(sm) == {id \in sm.obs : observed[id].latency > 0}

\* The bucket counts of the serviceMetrics add up to its samples.
CountsAddUp(sm) == totalHistogramCount(sm.latencyCounts) = Cardinality(SamplesOf(sm))

\* C12: in every state, for every service accumulator of the live map (and of
\* the snapshot a flush is working on), the bucket counts with the +Inf
\* bucket add up to the number of latency samples observed for the service
\* since the last swap, one per event with a duration or latency above 0.
C12_BucketCountsSumToSamples ==
    /\ \A svc \in DOMAIN services : CountsAddUp(services[svc])
    /\ \A svc \in DOMAIN snapshot : CountsAddUp(snapshot[svc])

\* C12 witness: an accumulator of the live map, after an earlier flush, holds
\* a sample in the +Inf bucket and an observation that gave no sample.
C12_Witness ==
    /\ Len(flushed) >= 1
    /\ CountedIn(flushed[1]) # {}
    /\ \E svc \in DOMAIN services :
          /\ services[svc].latencyCounts[Len(buckets) + 1] > 0
          /\ SamplesOf(services[svc]) # services[svc].obs

---------------------------------------------------------------------------
(* C13, C14 *)

ServiceNames == {"api", "web"}

\* A stored or read event joins two different, named services.
IsEdgeEvent(ev) == ev.src # "" /\ ev.dst # "" /\ ev.src # ev.dst

\* How many of the events the running cycle has read go from src to dst.
ReadCount(src, dst) ==
    Cardinality({i \in 1..Len(depIn.conns) :
                    depIn.conns[i].src = src /\ depIn.conns[i].dst = dst})
    + Cardinality({i \in 1..Len(depIn.reqs) :
                    depIn.reqs[i].src = src /\ depIn.reqs[i].dst = dst})

\* How many stored events the aggregator counts under the service.
StoredUnder(svc) ==
    Cardinality({i \in 1..Len(storeConns) : boundService(storeConns[i].ev) = svc})
    + Cardinality({i \in 1..Len(storeReqs) : boundService(storeReqs[i].ev) = svc})

\* How many stored events go from the service to itself.
StoredSelfCalls(svc) ==
    Cardinality({i \in 1..Len(storeConns) :
                    storeConns[i].ev.src = svc /\ storeConns[i].ev.dst = svc})
    + Cardinality({i \in 1..Len(storeReqs) :
                    storeReqs[i].ev.src = svc /\ storeReqs[i].ev.dst = svc})

\* C13: no accumulator and no written link of the dependency computer has
\* parent equal to child; after a cycle has read its events every edge counts
\* exactly the events read between its two different services, so events of a
\* service to itself add to no edge; and the aggregator counts every written
\* event, self-calls included, as a call under its service.
C13_NoSelfEdgeButCounted ==
    /\ \A key \in DOMAIN deps : deps[key].parent # deps[key].child
    /\ \A link \in depLinks : link.parent # link.child
    /\ dpc = "read" =>
          \A src, dst \in ServiceNames :
              IF src # dst
              THEN ReadCount(src, dst)
                     = (IF depKey(src, dst) \in DOMAIN deps
                        THEN deps[depKey(src, dst)].callCount ELSE 0)
              ELSE depKey(src, dst) \notin DOMAIN deps
    /\ \A svc \in ServiceNames :
          StoredUnder(svc) = (IF svc \in DOMAIN services THEN services[svc].callCount ELSE 0)

\* C13 witness: two calls of web to itself were written, the cycle read them
\* with a call from api to web and built the one edge, and the aggregator
\* counts the self-calls under web.
C13_Witness ==
    /\ dpc = "read"
    /\ StoredSelfCalls("web") >= 2
    /\ ReadCount("web", "web") >= 2
    /\ DOMAIN deps = {depKey("api", "web")}
    /\ "web" \in DOMAIN services
    /\ services["web"].callCount >= StoredSelfCalls("web")

\* errorCount / callCount, as the flush would emit it, lies in [0, 1].
RateInUnitInterval(rate) == 0 <= rate[1] /\ rate[1] <= rate[2] /\ rate[2] > 0

\* C14: errorCount <= callCount for every per-service accumulator of the
\* aggregator, so every error rate a flush emits is in [0, 1], and for every
\* accumulator and every written link of the dependency computer.
C14_ErrorsWithinCalls ==
    /\ \A svc \in DOMAIN services : services[svc].errorCount <= services[svc].callCount
    /\ \A pt \in pointsOf(services).error_rate : RateInUnitInterval(pt.value)
    /\ \A key \in DOMAIN deps : deps[key].errorCount <= deps[key].callCount
    /\ \A link \in depLinks : link.errorCount <= link.callCount

\* C14 witness: a written link and an aggregator accumulator both count an
\* error among several calls.
C14_Witness ==
    /\ \E link \in depLinks : link.errorCount >= 1 /\ link.callCount > link.errorCount
    /\ \E svc \in DOMAIN services :
          services[svc].errorCount >= 1 /\ services[svc].callCount > services[svc].errorCount

---------------------------------------------------------------------------
(* C15, C16, C17 *)

\* How many events of the stream storage holds: those whose write succeeded.
WrittenBy(strm) ==
    Cardinality({i \in 1..Len(storeConns) : storeConns[i].stream = strm})
    + Cardinality({i \in 1..Len(storeReqs) : storeReqs[i].stream = strm})

\* The batches the stream has brought, as places of the history.
BatchesOf(strm) == {i \in 1..Len(batchesIn) : batchesIn[i].stream = strm}

BatchSize(eb) == Len(eb.connections) + Len(eb.httpRequests)

RECURSIVE SizeSum(_, _)
SizeSum(strm, i) ==
    IF i = 0 THEN 0
    ELSE SizeSum(strm, i - 1)
         + (IF batchesIn[i].stream = strm THEN BatchSize(batchesIn[i].batch) ELSE 0)

\* C15: when a stream has ended with io.EOF, the ack's accepted value is the
\* number of the stream's events, connections and requests, that were
\* written to storage; when no write failed it is the sum of the batch sizes.
C15_AckCountsWrittenEvents ==
    \A strm \in IngestStreams :
        ipc[strm] = "closed" =>
            /\ ack[strm] = WrittenBy(strm)
            /\ (\A i \in BatchesOf(strm) : ~batchesIn[i].err)
                  => ack[strm] = SizeSum(strm, Len(batchesIn))

\* C15 witness: a stream ended after a batch whose request write failed
\* behind a connection write that succeeded, and a batch that was written
\* whole.
C15_Witness ==
    \E strm \in IngestStreams :
        /\ ipc[strm] = "closed"
        /\ \E i, j \in BatchesOf(strm) :
              /\ batchesIn[i].err /\ batchesIn[i].accepted > 0
              /\ ~batchesIn[j].err /\ batchesIn[j].accepted > 1
        /\ ack[strm] > 2

\* C16: a batch whose storage write fails leaves the stream in its receive
\* loop and adds what it had written to the stream's total, and every batch,
\* also after a failure, is counted: the total is always the number of the
\* stream's events in storage.
C16_WriteErrorKeepsStream ==
    /\ [][\A strm \in IngestStreams :
            (batchesIn' # batchesIn /\ batchesIn'[Len(batchesIn')].stream = strm)
                => /\ ipc'[strm] = "recv"
                   /\ totalAccepted'[strm] - totalAccepted[strm]
                        = (Len(storeConns') - Len(storeConns))
                          + (Len(storeReqs') - Len(storeReqs))]_vars
    /\ [](\A strm \in IngestStreams : totalAccepted[strm] = WrittenBy(strm))

\* C16 witness: after a batch that failed with part of it written, a later
\* batch of the stream was written and counted, and the stream then ended.
C16_Witness ==
    \E strm \in IngestStreams :
        /\ Len(batchesIn) = 2
        /\ batchesIn[1].stream = strm /\ batchesIn[2].stream = strm
        /\ batchesIn[1].err /\ batchesIn[1].accepted = 1
        /\ ~batchesIn[2].err /\ batchesIn[2].accepted = 2
        /\ ack[strm] = 3

\* The decoded HTTP request events of the batch are in storage.
RequestsStored(entry) ==
    \A k \in 1..Len(entry.batch.httpRequests) :
        \E i \in 1..Len(storeReqs) :
            /\ storeReqs[i].stream = entry.stream
            /\ storeReqs[i].ev = protoToHTTPRequestEvent(entry.batch.httpRequests[k])

\* The decoded HTTP request events of the batch were published to the aggregator.
RequestsObserved(entry) ==
    \A k \in 1..Len(entry.batch.httpRequests) :
        LET ev == protoToHTTPRequestEvent(entry.batch.httpRequests[k])
        IN boundService(ev) # "" => \E i \in 1..Len(observed) : observed[i] = ev

\* C17: when the write of a batch's connection events fails while storage
\* takes request events, the HTTP request events of the same batch are still
\* written and published to the aggregator.
C17_RequestsSurviveConnectionFailure ==
    \A i \in 1..Len(batchesIn) :
        (~batchesIn[i].connOk /\ batchesIn[i].reqOk)
            => RequestsStored(batchesIn[i]) /\ RequestsObserved(batchesIn[i])


---------------------------------------------------------------------------
(* C18, C19, C20: Start's reconnect loop *)

\* C18: when flushLoop ends with a send error, Start closes the connection
\* and waits a backoff interval before the next dial; it never dials straight
\* after a stream break.
C18_WaitsAfterStreamBreak == spc = "dialing" => lastStep # "break"

\* The wait that ends in this step is the initial backoff when no dial failed
\* since the start or the last successful dial, and otherwise twice the wait
\* before it, cut at the maximum.
WaitFollows ==
    (spc = "sleeping" /\ spc' = "top") =>
        waited' = (IF waited = 0 THEN initialReconnectBackoff
                   ELSE Min2(2 * waited, maxReconnectBackoff))

\* C19: while dials fail, the waits before the redials are the initial
\* backoff (500 ms), then doubled each time and never more than the maximum
\* (30 s); after a dial succeeds, the next failure waits the initial backoff.
C19_BackoffDoublesToCap ==
    /\ [](waited <= maxReconnectBackoff /\ (lastStep = "dialOk" => waited = 0))
    /\ [][WaitFollows]_vars

\* Seven dials failed in a row: the last wait was cut at the maximum.
C19_Witness ==
    /\ waited = maxReconnectBackoff
    /\ backoff = maxReconnectBackoff
    /\ lastStep = "slept"

\* C20: when the context is cancelled, in whatever state the loop is, Start
\* attempts one final flush and then returns the cancellation error.
C20_FinalFlushBeforeReturn ==
    spc = "returned" => (finalFlush = 1 /\ startErr = "ctx")


---------------------------------------------------------------------------
(* C21: cancellation while the client is in its flush loop *)

\* C21: after the context is cancelled while the client is in flushLoop,
\* flush runs at most once more, and when Start returns the connection and
\* the stream are nil.
C21_OneFlushAfterCancel ==
    /\ lateFlushes <= 1
    /\ spc = "returned" => (conn = "nil" /\ stream = "nil")


---------------------------------------------------------------------------
(* C22: the order of two observations *)

\* The events Observe counts under a service.
BoundEvents == {ev \in AggEvents : boundService(ev) # ""}

\* C22: observations commute: from the same map, observing two events in
\* either order gives the same serviceMetrics for every service (and so the
\* same points and labels at the next flush).
C22_ObservationsCommute ==
    \A e1 \in BoundEvents, e2 \in BoundEvents :
        observe(observe(services, e1, obsNext), e2, obsNext + 1)
            = observe(observe(services, e2, obsNext + 1), e1, obsNext)


---------------------------------------------------------------------------
(* C23: the points of one flush *)

\* The points of kind k that out holds for service svc.
PointsFor(out, k, svc) == {p \in out[k] : p.service = svc}

\* Service svc has its seven points in out.
SevenPoints(out, svc) ==
    /\ {p.quantile : p \in PointsFor(out, "latency", svc)} = {50, 95, 99}
    /\ Cardinality(PointsFor(out, "latency", svc)) = 3
    /\ Cardinality(PointsFor(out, "call_rate", svc)) = 1
    /\ Cardinality(PointsFor(out, "error_rate", svc)) = 1
    /\ {p.direction : p \in PointsFor(out, "traffic", svc)} = {"sent", "recv"}
    /\ Cardinality(PointsFor(out, "traffic", svc)) = 2

\* C23: for every service of the flushed snapshot, one flush emits exactly
\* three latency points (quantiles 0.5, 0.95, 0.99), one call-count point,
\* one error-rate point and two traffic points (sent and recv), also for a
\* service whose events all had latency or duration 0.
C23_SevenPointsPerService ==
    [][(apc = "swapped" /\ apc' = "idle") =>
          \A svc \in DOMAIN snapshot : SevenPoints(aggOut', svc)]_vars


---------------------------------------------------------------------------
(* C24: Aggregator.Start, flushLoop and Stop *)

\* Aggregator.Start: the flush loop's goroutine begins.
aggStart ==
    /\ UNCHANGED <<expVars, startVars, histVars, edgeVars, aggVars, cacheVars, clusterVars, srvVars, nodeVars, agentVars, loaderVars, taskVars, recVars>>
    /\ lpc = "off"
    /\ lpc' = "select"
    /\ UNCHANGED <<stopCh, doneCh, stpc, beforeStop, written>>

\* flushLoop's ticker case: flush is called (the last flush of a run is left
\* to the stop case).
aggLoopTick ==
    /\ lpc = "select"
    /\ Len(flushed) < MaxAggFlush - 1
    /\ aggFlushLock
    /\ lpc' = "tick"
    /\ UNCHANGED <<stopCh, doneCh, stpc, beforeStop, written>>

\* flushLoop's stopCh case: the final flush is called.
aggLoopStop ==
    /\ lpc = "select"
    /\ stopCh = "closed"
    /\ aggFlushLock
    /\ lpc' = "final"
    /\ UNCHANGED <<stopCh, doneCh, stpc, beforeStop, written>>

\* The running flush swaps the maps.
aggLoopSwap ==
    /\ lpc \in {"tick", "final"}
    /\ aggFlushSwap
    /\ UNCHANGED stopVars

\* The running flush gives its points to the metric writer and returns; after
\* the final flush the loop returns and its deferred close(a.doneCh) runs.
aggLoopEmit ==
    /\ lpc \in {"tick", "final"}
    /\ aggFlushEmit
    /\ written' = written \cup CountedIn(snapshot)
    /\ lpc' = (IF lpc = "tick" THEN "select" ELSE "ended")
    /\ doneCh' = (IF lpc = "final" THEN "closed" ELSE doneCh)
    /\ UNCHANGED <<stopCh, stpc, beforeStop>>

\* Stop up to its receive: close(a.stopCh).
aggStop ==
    /\ UNCHANGED <<expVars, startVars, histVars, edgeVars, aggVars, cacheVars, clusterVars, srvVars, nodeVars, agentVars, loaderVars, taskVars, recVars>>
    /\ stpc = "idle"
    /\ stopCh' = "closed"
    /\ stpc' = "waiting"
    /\ beforeStop' = Returned
    /\ UNCHANGED <<lpc, doneCh, written>>

\* A mutant of doneReceived: Stop does not wait for the loop.
doneReceivedAtOnce(ch) == TRUE

\* Stop's <-a.doneCh: the receive returns once the channel is closed.
doneReceived(ch) == ch = "closed"

\* Stop returns.
aggStopReturn ==
    /\ UNCHANGED <<expVars, startVars, histVars, edgeVars, aggVars, cacheVars, clusterVars, srvVars, nodeVars, agentVars, loaderVars, taskVars, recVars>>
    /\ stpc = "waiting"
    /\ doneReceived(doneCh)
    /\ stpc' = "returned"
    /\ UNCHANGED <<lpc, stopCh, doneCh, beforeStop, written>>

\* The streams observe, the flush loop runs, and Stop is called once.
AggStopNext ==
    \/ \E t \in Streams : observeUnbound(t) /\ UNCHANGED stopVars
    \/ \E t \in Streams : observeLock(t) /\ UNCHANGED stopVars
    \/ \E t \in Streams : observeBody(t) /\ UNCHANGED stopVars
    \/ aggStart
    \/ aggLoopTick
    \/ aggLoopStop
    \/ aggLoopSwap
    \/ aggLoopEmit
    \/ aggStop
    \/ aggStopReturn

SpecAggStop == Init /\ [][AggStopNext]_vars

\* C24: Stop performs one final flush before it returns: every observation
\* that completed before Stop was called is in a snapshot whose points were
\* given to the metric writer by the time Stop returns, and the flush loop
\* has ended.
C24_StopFlushesBeforeReturn ==
    stpc = "returned" => (beforeStop \subseteq written /\ lpc = "ended")

\* Stop has returned, and the final flush (the last one) carried an
\* observation that had completed before Stop was called.
C24_Witness ==
    /\ stpc = "returned"
    /\ Len(flushed) >= 1
    /\ CountedIn(flushed[Len(flushed)]) \cap beforeStop # {}


---------------------------------------------------------------------------
(* C25: the node of an event *)

\* The decoded event has the node of its item or, when that is empty, of its
\* batch envelope.
NodeOfItemOrBatch(d) ==
    d.node = (IF d.itemNode # "" THEN d.itemNode ELSE d.batchNode)

\* C25: every event the agent enqueues has the agent's node name, every batch
\* envelope of the agent carries it, and after ingestion decoding every event
\* has the node of its item or, when that is empty, of its batch envelope.
C25_NodeCarried ==
    /\ \A i \in 1..Len(nodeQueue) : nodeQueue[i].node = nodeName
    /\ \A i \in 1..Len(wire) : wire[i].from = "agent" => wire[i].node = nodeName
    /\ \A i \in 1..Len(decoded) :
          /\ NodeOfItemOrBatch(decoded[i])
          /\ decoded[i].from = "agent" => decoded[i].node = nodeName

\* An event of the agent and items of another client, one without a node and
\* one with its own, have been decoded while the agent's queue holds more.
C25_Witness ==
    /\ \E i \in 1..Len(decoded) : decoded[i].from = "agent"
    /\ \E i \in 1..Len(decoded) : decoded[i].from = "other" /\ decoded[i].itemNode = ""
    /\ \E i \in 1..Len(decoded) : decoded[i].from = "other" /\ decoded[i].itemNode # ""
    /\ Len(nodeQueue) > 0


---------------------------------------------------------------------------
(* C26: the drop counter *)

\* C26: each event Enqueue drops because the queue is full increments a drop
\* counter by one, so the counter always equals the number of events dropped
\* for overflow.
C26_DropCounterCountsDrops == dropCounter = Len(dropped)


---------------------------------------------------------------------------
(* C27: readiness *)

\* C27: /readyz answers 200 only after all subsystems report up (the cache
\* has completed its initial sync, the loader and the exporter have started
\* successfully); /healthz always answers 200.
C27_ReadyOnlyWhenAllUp ==
    /\ (lastProbe.path = "readyz" /\ lastProbe.code = 200) => lastProbe.allUp
    /\ lastProbe.path = "healthz" => lastProbe.code = 200


---------------------------------------------------------------------------
(* C28, C29, C30: the probe loader *)

\* No object of the path could be loaded.
NothingLoaded ==
    ~setup.statOk \/ \A i \in 1..Len(setup.objects) : ~setup.objects[i].specOk

\* A reader for the events of kind r could be opened on some object.
ReaderOpened(r) ==
    /\ setup.statOk
    /\ \E i \in 1..Len(setup.objects) :
          LET o == setup.objects[i]
          IN o.specOk /\ o.collOk /\ r \in o.maps /\ o.readerOk

\* C28: Start returns a fatal error exactly when no probe object could be
\* loaded or no reader could be opened; with at least one reader it starts
\* the decode loops of the open readers and runs until cancellation; a
\* failed attach alone never makes it fail.
C28_FatalOnlyWithoutReader ==
    lpcs # "init" =>
        /\ (startResult = "fatal") <=> (NothingLoaded \/ \A r \in Readers : ~ReaderOpened(r))
        /\ startResult = "ctx" => lctx
        /\ lpcs = "returned" => startResult # "none"
        /\ startResult # "fatal" => \A r \in Readers : (rpc[r] # "off") <=> ReaderOpened(r)

\* Start runs degraded: one reader only, and an attach has failed; its decode
\* loop holds an event.
C28_Witness ==
    /\ lpcs = "running"
    /\ \E i \in 1..Len(setup.objects) : setup.objects[i].attachFailed /\ setup.objects[i].collOk
    /\ rpc["conn"] = "off"
    /\ rpc["http"] = "holding"

\* The releases that Close has made so far.
Released == Range(releaseLog)

\* C29: on cancellation the loader releases in the order links, readers,
\* collections, and closes the event channel last, so the consumer of
\* Events() sees the end of the stream only after everything else is released.
C29_ChannelClosedLast ==
    /\ "readers" \in Released => "links" \in Released
    /\ "collections" \in Released => "readers" \in Released
    /\ "channel" \in Released => "collections" \in Released
    /\ evch.closed <=> "channel" \in Released
    /\ (evch.closed \/ sawEOF) =>
          (links = 0 /\ collections = 0 /\ \A r \in Readers : perf[r] # "open")
    /\ releaseLog # <<>> => lctx

\* The consumer has seen the end of the stream of a loader that had links, a
\* collection and both readers.
C29_Witness ==
    /\ sawEOF
    /\ releaseLog = <<"links", "readers", "collections", "channel">>
    /\ \A r \in Readers : perf[r] = "closed"
    /\ \E i \in 1..Len(setup.objects) : setup.objects[i].attached > 0 /\ setup.objects[i].collOk

\* C30: the loader never sends on its event channel after closing it: when
\* Close closes the channel, both decode loops have stopped publishing.
C30_NoSendAfterClose == \A r \in Readers : rpc[r] # "panicked"


\* ---------------------------------------------------------------------------
\* The identity cache under a coherent history of the cluster
\* (src/internal/agent/k8s/cache.go:75-110): the informers deliver an add for
\* an object that did not exist, an update for one that exists (the handler
\* gets the new object only) and a delete for one that exists (the handler
\* gets the last known object).
\* ---------------------------------------------------------------------------

\* The key of an object in its informer's store.
objectKey(obj) == <<obj.namespace, obj.name>>

\* The pod the initial list of the pod informer delivers.
ListedPod == CHOOSE pod \in PodObjects : pod.id = "p1@5"

\* The versions of the EndpointSlice "fe" of frontend-svc: the first lists pod
\* p1, the second lists pod p2 only.
ClusterSlices ==
    { [id |-> "fe#1", name |-> "fe", namespace |-> "shop", label |-> "frontend-svc",
       eps |-> << [targetRef |-> [kind |-> "Pod", name |-> <<"p", "1">>],
                   addresses |-> <<"10.0.0.5">>] >>],
      [id |-> "fe#2", name |-> "fe", namespace |-> "shop", label |-> "frontend-svc",
       eps |-> << [targetRef |-> [kind |-> "Pod", name |-> <<"p", "2">>],
                   addresses |-> <<"10.0.0.6">>] >>] }

\* The cache once the add handler of the listed pod has run.
ClusterInit ==
    /\ heap = <<podEndpoint(ListedPod, EmptyMap)>>
    /\ endpoints = MapPut(EmptyMap, ListedPod.podIP, 1)
    /\ podToServices = EmptyMap
    /\ ppc = "idle"
    /\ pEp = NoLocal
    /\ held = <<>>
    /\ cacheEvents = 0
    /\ done = {[op |-> "podAdd", id |-> ListedPod.id]}
    /\ lastOp = "pod"
    /\ pods = MapPut(EmptyMap, objectKey(ListedPod), ListedPod)
    /\ slices = EmptyMap

InitCluster == ExporterInit /\ StartInit /\ HistInit /\ EdgeStart("rising") /\ AggInit /\ StopInit /\ ClusterInit /\ ServerInit /\ NodeStart("n1") /\ AgentInit /\ LoaderInit /\ RecordStart(8)

\* AddFunc of the pod informer (cache.go:79): a pod that did not exist.
podAdded(pod) ==
    /\ objectKey(pod) \notin DOMAIN pods
    /\ onPodAdd(pod)
    /\ pods' = MapPut(pods, objectKey(pod), pod)
    /\ UNCHANGED slices

\* UpdateFunc of the pod informer (cache.go:80-82): onPodAdd on the new object.
podUpdated(pod) ==
    /\ objectKey(pod) \in DOMAIN pods
    /\ pods[objectKey(pod)] # pod
    /\ onPodAdd(pod)
    /\ pods' = MapPut(pods, objectKey(pod), pod)
    /\ UNCHANGED slices

\* DeleteFunc of the pod informer (cache.go:83): onPodDelete on the last
\* known object.
podDeleted(k) ==
    /\ k \in DOMAIN pods
    /\ onPodDelete(pods[k])
    /\ pods' = MapDel(pods, k)
    /\ UNCHANGED slices

\* AddFunc of the EndpointSlice informer (cache.go:87).
sliceAdded(eps) ==
    /\ objectKey(eps) \notin DOMAIN slices
    /\ onEndpointSliceUpdate(eps)
    /\ slices' = MapPut(slices, objectKey(eps), eps)
    /\ UNCHANGED pods

\* UpdateFunc of the EndpointSlice informer (cache.go:88-90):
\* onEndpointSliceUpdate on the new object.
sliceUpdated(eps) ==
    /\ objectKey(eps) \in DOMAIN slices
    /\ slices[objectKey(eps)] # eps
    /\ onEndpointSliceUpdate(eps)
    /\ slices' = MapPut(slices, objectKey(eps), eps)
    /\ UNCHANGED pods

\* DeleteFunc of the EndpointSlice informer (cache.go:91).
sliceDeleted(k) ==
    /\ k \in DOMAIN slices
    /\ onEndpointSliceDelete(slices[k])
    /\ slices' = MapDel(slices, k)
    /\ UNCHANGED pods

ClusterNext ==
    \/ \E pod \in PodObjects : podAdded(pod)
    \/ \E pod \in PodObjects : podUpdated(pod)
    \/ \E k \in DOMAIN pods : podDeleted(k)
    \/ onPodAddStore /\ UNCHANGED clusterVars
    \/ \E eps \in ClusterSlices : sliceAdded(eps)
    \/ \E eps \in ClusterSlices : sliceUpdated(eps)
    \/ \E k \in DOMAIN slices : sliceDeleted(k)
    \/ \E ip \in LookupIPs : Lookup(ip) /\ UNCHANGED clusterVars

SpecCluster == InitCluster /\ [][ClusterNext]_vars

\* The pods that exist and have the address ip.
PodsAt(ip) == {k \in DOMAIN pods : pods[k].podIP = ip}

\* C31: after any sequence of pod add, update and delete events has been
\* processed, Lookup(ip) returns an endpoint if and only if some pod that
\* currently exists has that IP, and the endpoint names that pod.
C31_LookupMatchesExistingPods ==
    ppc = "idle" =>
        \A ip \in LookupIPs :
            /\ (LookupValue(ip) # NilEndpoint) <=> (PodsAt(ip) # {})
            /\ LookupValue(ip) # NilEndpoint =>
                   \E k \in PodsAt(ip) : LookupValue(ip).pod = k[2] /\ LookupValue(ip).namespace = k[1]


\* The (namespace, pod) pairs the existing EndpointSlices list.
ListedPodKeys == UNION {slicePodKeys(slices[k]) : k \in DOMAIN slices}

\* The versions of the slice with key k that a handler has processed and that
\* the existing version has replaced.
EarlierVersions(k) ==
    {u \in ClusterSlices : /\ objectKey(u) = k
                           /\ u # slices[k]
                           /\ [op |-> "sliceUpdate", id |-> u.id] \in done}

\* C32: after an EndpointSlice update whose new version no longer lists pod p,
\* the (namespace, p) to service association recorded from the earlier version
\* is removed and the service field of p's IP row is cleared.
C32_UnlistedPodLosesService ==
    \A k \in DOMAIN slices : \A u \in EarlierVersions(k) :
        \A pk \in slicePodKeys(u) \ ListedPodKeys :
            /\ pk \notin DOMAIN podToServices
            /\ \A ip \in DOMAIN endpoints :
                   <<LookupValue(ip).namespace, LookupValue(ip).pod>> = pk
                       => LookupValue(ip).service # u.label


\* ---------------------------------------------------------------------------
\* C33: what a flush takes and how the batch lists it
\* (src/internal/agent/exporter/grpc.go:259-290)
\* ---------------------------------------------------------------------------

\* The timestamps of a sequence of events or items, in its order.
stampsOf(seq) == [i \in 1..Len(seq) |-> seq[i].ts]

\* seq lists its timestamps in ascending order, the order of the enqueues.
InEnqueueOrder(seq) == \A i, j \in 1..Len(seq) : i < j => seq[i].ts < seq[j].ts

\* The step is a flush of the agent that sent a batch.
FlushSent == /\ Len(wire') = Len(wire) + 1
             /\ wire'[Len(wire')].from = "agent"

\* C33 (as stated): each flush takes the min(batchSize, queue length) oldest
\* events and leaves the rest in place and in order, and the batch lists the
\* taken events in their enqueue order, also between a connection event and a
\* request event: whoever reads the batch, connections then requests, meets
\* the events in the order of their enqueues.
C33_BatchInEnqueueOrder ==
    \A i \in 1..Len(wire) :
        wire[i].from = "agent" => InEnqueueOrder(wire[i].connections \o wire[i].httpRequests)

\* C33 (amended): each flush takes the min(batchSize, queue length) oldest
\* events and leaves the rest in place and in order; the batch holds exactly
\* the taken events, the connection events in their enqueue order in one list
\* and the request events in their enqueue order in another.
C33_TakeAndOrderPerKind ==
    [][FlushSent =>
          LET n == Min2(batchSize, Len(nodeQueue))
              b == wire'[Len(wire')]
          IN /\ nodeQueue' = SubSeq(nodeQueue, n + 1, Len(nodeQueue))
             /\ Range(stampsOf(b.connections)) =
                    {nodeQueue[i].ts : i \in {j \in 1..n : nodeQueue[j].kind = "conn"}}
             /\ Range(stampsOf(b.httpRequests)) =
                    {nodeQueue[i].ts : i \in {j \in 1..n : nodeQueue[j].kind = "http"}}
             /\ Len(b.connections) + Len(b.httpRequests) = n
             /\ InEnqueueOrder(b.connections)
             /\ InEnqueueOrder(b.httpRequests)]_vars

\* A batch of two connection events is on the wire and the flush left a later
\* event in the queue.
C33_Witness ==
    /\ Len(nodeQueue) > 0
    /\ \E i \in 1..Len(wire) : wire[i].from = "agent" /\ Len(wire[i].connections) = 2


\* ---------------------------------------------------------------------------
\* C34..C36: the dependency computer (src/unnamed/part_004:167-320)
\* ---------------------------------------------------------------------------

LinksFor(src, dst) == {l \in linksOf(deps) : l.parent = src /\ l.child = dst}

\* C35: a compute cycle produces exactly one link per distinct (parent, child)
\* pair occurring among the events it read with both services non-empty and
\* different, and that link's call_count is the number of such events
\* (connection plus request) with that pair, with nothing carried over from
\* an earlier cycle.
C35_OneLinkPerPairOfTheCycle ==
    dpc = "read" =>
        /\ \A src, dst \in ServiceNames \cup {""} :
              IF src # "" /\ dst # "" /\ src # dst /\ ReadCount(src, dst) > 0
              THEN /\ Cardinality(LinksFor(src, dst)) = 1
                   /\ \A l \in LinksFor(src, dst) : l.callCount = ReadCount(src, dst)
              ELSE LinksFor(src, dst) = {}
        /\ \A l \in linksOf(deps) : l.parent \in ServiceNames /\ l.child \in ServiceNames

\* A second cycle, after one that wrote links, has read events of two pairs,
\* one of them as a connection event and a request event.
C35_Witness ==
    /\ dpc = "read"
    /\ cycles = 1
    /\ depLinks # {}
    /\ Cardinality(linksOf(deps)) = 2
    /\ \E l \in linksOf(deps) : l.callCount >= 2
    /\ \E l \in depLinks : LinksFor(l.parent, l.child) # {l}


\* What GetCurrentLinks returns in this state: buildLinks on the accumulators
\* as they are.
GetCurrentLinks == linksOf(deps)

\* C36: GetCurrentLinks, called at any moment and also while a compute cycle
\* is running, returns the complete set of links of the most recently
\* completed computation: what it returns changes only with the step that
\* completes a computation, never while a cycle is still accumulating.
C36_LinksOfLastCompletedCycle ==
    [][GetCurrentLinks' # GetCurrentLinks => (dpc = "read" /\ dpc' = "idle")]_vars


\* ---------------------------------------------------------------------------
\* C37: the server-wide counter (src/unnamed/part_005:193-241)
\* ---------------------------------------------------------------------------

\* The sum of the accepted counts processBatch returned for the first i batches.
RECURSIVE ReturnedSum(_)
ReturnedSum(i) == IF i = 0 THEN 0 ELSE ReturnedSum(i - 1) + batchesIn[i].accepted

\* The sum of the acks of a set of ended streams.
RECURSIVE AckSum(_)
AckSum(S) == IF S = {} THEN 0
             ELSE LET strm == CHOOSE x \in S : TRUE IN ack[strm] + AckSum(S \ {strm})

\* C37: after any sequence of batches, with storage writes succeeding or
\* failing, the server-wide TotalAccepted counter equals the sum of the
\* accepted counts that processBatch returned, and so the sum of the stream
\* acks once all streams have ended.
C37_TotalIsSumOfReturned ==
    /\ sAccepted = ReturnedSum(Len(batchesIn))
    /\ (\A strm \in IngestStreams : ipc[strm] = "closed") => sAccepted = AckSum(IngestStreams)


\* ---------------------------------------------------------------------------
\* C38: the bucket of a sample (src/internal/server/metrics/aggregator.go:164-180)
\* ---------------------------------------------------------------------------

\* The bucket the claim names for x: that of the smallest boundary b_i with
\* x <= b_i, or the overflow bucket when x is above every boundary.
NamedBucket(x) ==
    IF \E i \in 1..Len(buckets) : x <= buckets[i]
    THEN CHOOSE i \in 1..Len(buckets) :
             /\ x <= buckets[i]
             /\ \A j \in 1..Len(buckets) : x <= buckets[j] => buckets[i] <= buckets[j]
    ELSE Len(buckets) + 1

\* How many of the observed samples in S the claim puts in bucket i.
RECURSIVE NamedCount(_, _)
NamedCount(S, i) ==
    IF S = {} THEN 0
    ELSE LET x == CHOOSE y \in S : TRUE
         IN (IF NamedBucket(x) = i THEN hSamples[x] ELSE 0) + NamedCount(S \ {x}, i)

\* C38: observeLatency increments exactly one bucket per sample x, the bucket
\* of the smallest boundary b_i with x <= b_i or the overflow bucket when x is
\* above every boundary; so the bucket index is monotonic in x and a sample
\* equal to a boundary goes in that boundary's bucket.
C38_OneBucketPerSample ==
    /\ \A i \in 1..(Len(buckets) + 1) : hsm.latencyCounts[i] = NamedCount(SampleValues, i)
    /\ \A x, y \in SampleValues : x <= y => bucketOf(x) <= bucketOf(y)
    /\ \A i \in 1..Len(buckets) : bucketOf(buckets[i]) = i

\* A sample equal to a boundary, a sample above every boundary and two
\* samples between the same boundaries have been observed.
C38_Witness ==
    /\ hSamples[2] = 1
    /\ hSamples[30000] = 1
    /\ hSamples[3] = 1 /\ hSamples[9] = 1
    /\ hsm.latencyCounts[1] = 1
    /\ hsm.latencyCounts[2] = 2
    /\ hsm.latencyCounts[Len(buckets) + 1] = 1


\* ---------------------------------------------------------------------------
\* C39: the agent's shutdown (src/unnamed/part_003:64-145, 149-188): the four
\* tasks of main's WaitGroup under one root context.
\* ---------------------------------------------------------------------------

\* How many events processEvents hands to the exporter in a run.
MaxShutdownEvents == 1

\* The loader as Start leaves it with one object that has the connection map:
\* its decode loop runs and Start waits for the context.
ShutdownLoaded == loadAll(TRUE, << CHOOSE o \in ProbeObjects : o.maps = {"conn"} /\ o.readerOk /\ o.collOk >>)

ShutdownLoaderInit ==
    /\ lpcs = "running"
    /\ setup = [statOk |-> TRUE,
                objects |-> << CHOOSE o \in ProbeObjects : o.maps = {"conn"} /\ o.readerOk /\ o.collOk >>]
    /\ collections = ShutdownLoaded.collections
    /\ links = ShutdownLoaded.links
    /\ perf = ShutdownLoaded.perf
    /\ lctx = FALSE
    /\ rpc = [r \in Readers |-> IF ShutdownLoaded.perf[r] = "open" THEN "check" ELSE "off"]
    /\ evch = [closed |-> FALSE, len |-> 0]
    /\ reads = 0
    /\ releaseLog = <<>>
    /\ startResult = "none"
    /\ sawEOF = FALSE

InitShutdown == ExporterInit /\ StartInit /\ HistInit /\ EdgeStart("rising") /\ AggInit /\ StopInit /\ CacheInit /\ ServerInit /\ NodeStart("n1") /\ AgentInit /\ ShutdownLoaderInit /\ RecordStart(8)

\* What the other subsystems' variables do in a step of the shutdown.
ShutdownRest ==
    UNCHANGED <<histVars, edgeVars, aggVars, stopVars, cacheVars, clusterVars, srvVars, nodeVars, agentVars, recVars>>

\* The signal goroutine's cancel() of the root context (part_003:70-75): the
\* one context every task was given.
rootCancel ==
    /\ ShutdownRest
    /\ ~ctxDone
    /\ ctxDone' = TRUE
    /\ lctx' = TRUE
    /\ UNCHANGED <<spc, backoff, waited, lastStep, finalFlush, lateFlushes, startErr>>
    /\ UNCHANGED <<lpcs, setup, collections, links, perf, rpc, evch, reads, releaseLog,
                   startResult, sawEOF>>
    /\ UNCHANGED <<expVars, taskVars>>

\* Cache.Start: WaitForCacheSync returns with every informer synced.
cacheSynced ==
    /\ ShutdownRest
    /\ cpc = "sync"
    /\ cpc' = "blocked"
    /\ UNCHANGED <<expVars, startVars, loaderVars, epc>>

\* Cache.Start: WaitForCacheSync returns because the context was cancelled
\* before the sync, and Start returns its error.
cacheSyncCancelled ==
    /\ ShutdownRest
    /\ cpc = "sync"
    /\ ctxDone
    /\ cpc' = "returned"
    /\ UNCHANGED <<expVars, startVars, loaderVars, epc>>

\* Cache.Start: <-ctx.Done() returns and Start returns nil.
cacheWake ==
    /\ ShutdownRest
    /\ cpc = "blocked"
    /\ ctxDone
    /\ cpc' = "returned"
    /\ UNCHANGED <<expVars, startVars, loaderVars, epc>>

\* processEvents' select, case <-ctx.Done(): it returns.
processEventsDone ==
    /\ ShutdownRest
    /\ epc = "select"
    /\ ctxDone
    /\ epc' = "returned"
    /\ UNCHANGED <<expVars, startVars, loaderVars, cpc>>

\* processEvents' select, case evt, ok := <-events: an event is enriched,
\* stamped and enqueued; the end of the stream makes it return.
processEventsReceive ==
    /\ ShutdownRest
    /\ epc = "select"
    /\ evch.len > 0 \/ evch.closed
    /\ IF evch.len > 0
       THEN /\ nextId <= MaxShutdownEvents
            /\ evch' = [evch EXCEPT !.len = @ - 1]
            /\ queue' = enqueuePush(queue, nextId)
            /\ dropped' = dropped \o Gone(queue, enqueuePush(queue, nextId))
            /\ nextId' = nextId + 1
            /\ UNCHANGED <<sawEOF, epc>>
       ELSE /\ sawEOF' = TRUE
            /\ epc' = "returned"
            /\ UNCHANGED <<evch, queue, dropped, nextId>>
    /\ UNCHANGED <<conn, stream, fpc, batch, flushErr, sendResult, takes, truncated,
                   handed, discarded>>
    /\ UNCHANGED <<lpcs, setup, collections, links, perf, lctx, rpc, reads, releaseLog,
                   startResult>>
    /\ UNCHANGED <<startVars, cpc>>

\* A decode loop has panicked: the Go runtime ends the process, and no
\* goroutine takes another step.
Crashed == \E r \in Readers : rpc[r] = "panicked"

\* The steps of the tasks, one list per goroutine.
LoaderStartStep == loaderWake \/ closeRelease
DecodeStep(r) == loopCheck(r) \/ loopRead(r) \/ loopSend(r) \/ loopQuit(r)
CacheStartStep == cacheSynced \/ cacheSyncCancelled \/ cacheWake
ProcessEventsStep == processEventsDone \/ processEventsReceive
ExporterStartStep ==
    \/ startTop
    \/ startDialOk
    \/ startDialFail
    \/ startSlept
    \/ startSleepCancelled
    \/ flushLoopTick
    \/ flushLoopTickDone
    \/ flushLoopDone
    \/ flushLoopFinalDone
    \/ startStreamError

ShutdownNext ==
    \/ ~Crashed /\ rootCancel
    \/ ~Crashed /\ loaderWake
    \/ ~Crashed /\ closeRelease
    \/ ~Crashed /\ \E r \in Readers : loopCheck(r)
    \/ ~Crashed /\ \E r \in Readers : loopRead(r)
    \/ ~Crashed /\ \E r \in Readers : loopSend(r)
    \/ ~Crashed /\ \E r \in Readers : loopQuit(r)
    \/ ~Crashed /\ cacheSynced
    \/ ~Crashed /\ cacheSyncCancelled
    \/ ~Crashed /\ cacheWake
    \/ ~Crashed /\ processEventsDone
    \/ ~Crashed /\ processEventsReceive
    \/ ~Crashed /\ startTop
    \/ ~Crashed /\ startDialOk
    \/ ~Crashed /\ startDialFail
    \/ ~Crashed /\ startSlept
    \/ ~Crashed /\ startSleepCancelled
    \/ ~Crashed /\ flushLoopTick
    \/ ~Crashed /\ flushLoopTickDone
    \/ ~Crashed /\ flushLoopDone
    \/ ~Crashed /\ flushLoopFinalDone
    \/ ~Crashed /\ startStreamError

\* Every goroutine that can take a step is scheduled.
ShutdownFairness ==
    /\ WF_vars(~Crashed /\ LoaderStartStep)
    /\ \A r \in Readers : WF_vars(~Crashed /\ DecodeStep(r))
    /\ WF_vars(~Crashed /\ CacheStartStep)
    /\ WF_vars(~Crashed /\ ProcessEventsStep)
    /\ WF_vars(~Crashed /\ ExporterStartStep)

SpecShutdown == InitShutdown /\ [][ShutdownNext]_vars /\ ShutdownFairness

\* main's wg.Wait() returns: the four tasks have returned.
AllReturned ==
    /\ lpcs = "returned"
    /\ cpc = "returned"
    /\ spc = "returned"
    /\ epc = "returned"

\* C39: after the agent's root context is cancelled, each of its tasks (probe
\* loader Start, identity cache Start, exporter Start, processEvents)
\* eventually returns, from whatever state it is in, so the agent's wait for
\* all tasks completes.
C39_AllTasksReturn == ctxDone ~> AllReturned

\* Unless a decode loop panics, the tasks do all return after the cancel.
ShutdownReturnsOrCrashes == ctxDone ~> (AllReturned \/ Crashed)


\* ---------------------------------------------------------------------------
\* C40: the length required of a connection record
\* (src/internal/agent/ebpf/loader.go:23-36, 275-320)
\* ---------------------------------------------------------------------------

InitRecord == ExporterInit /\ StartInit /\ HistInit /\ EdgeStart("rising") /\ AggInit /\ StopInit /\ CacheInit /\ ServerInit /\ NodeStart("n1") /\ AgentInit /\ LoaderInit /\ RecordInit

SpecRecord == InitRecord /\ [][RecordNext]_vars

====
